---- MODULE Spec2Model ----
(***************************************************************************)
(* Alarm evaluation and triggering engine of WakeUpAI:                     *)
(* src/src/alarm/alarm.py (classes Alarm and AlarmManager).                *)
(*                                                                         *)
(* The wall clock is scaled down: a minute has SecsPerMinute seconds, an   *)
(* hour MinutesPerHour minutes and a day HoursPerDay hours.  Timestamps    *)
(* are integers (seconds since the epoch); datetimes are records           *)
(* [day, hour, minute, second] obtained with FromTimestamp.                *)
(***************************************************************************)
EXTENDS Integers, Sequences, FiniteSets, TLC

----------------------------------------------------------------------------
(* Bounds of the model *)

SecsPerMinute == 2
MinutesPerHour == 2
HoursPerDay == 2
\* the clock is followed second by second for MaxTicks seconds of each day,
\* on MaxDays days
MaxTicks == 4
MaxDays == 2

DaysPerWeek == 7

TicksPerHour == SecsPerMinute * MinutesPerHour
TicksPerDay == TicksPerHour * HoursPerDay

\* the manager is constructed at 00:01:00 of day 0
StartTime == SecsPerMinute
\* the last second of a day that is followed
LastSecond == StartTime + MaxTicks

AlarmIds == {"a", "b"}
\* datetime.time(hour, minute): second and microsecond are 0
Time(h, m) == [hour |-> h, minute |-> m, second |-> 0, microsecond |-> 0]
\* alarm_time values offered to create/update
AlarmTimes == {Time(0, 1), Time(1, 0)}
\* repeat_days lists offered to create/update (unsorted, with duplicates)
RepeatInputs == {<< >>, <<1>>, <<1, 0, 1>>}
\* snooze durations, in minutes
SnoozeMinutes == {0, 1}
\* the duration of a snooze requested for the sounding alarms
RequestMinutes == 1
\* the arguments offered to update_alarm: << >> is an argument not supplied
UpdateTimes == {<< >>, <<Time(1, 0)>>}
UpdateRepeats == {<< >>, << << >> >>, << <<1, 0, 1>> >>}
UpdateEnabled == {<< >>, <<TRUE>>, <<FALSE>>}
\* the second alarm is always created as a one-time alarm at 00:01
FixedTime == Time(0, 1)
\* the label given to each alarm when it is created
LabelOf == [a |-> "wake", b |-> "tea"]
\* feed_options: a dict is the set of its <<key, value>> items
NoOptions == {}

----------------------------------------------------------------------------
(* Python values *)

\* None, for an optional timestamp
None == 0 - 1
\* None, for an optional datetime
NoneDt == [none |-> TRUE]
\* None, for dict.get of the last-triggered cache
NoKey == << >>

\* datetime.datetime.fromtimestamp
FromTimestamp(ts) ==
    [day    |-> ts \div TicksPerDay,
     hour   |-> (ts \div TicksPerHour) % HoursPerDay,
     minute |-> (ts \div SecsPerMinute) % MinutesPerHour,
     second |-> ts % SecsPerMinute]

\* datetime.datetime.timestamp
ToTimestamp(dt) ==
    ((dt.day * HoursPerDay + dt.hour) * MinutesPerHour + dt.minute)
        * SecsPerMinute + dt.second

\* datetime.datetime.weekday: Monday is 0; day 0 of the model is a Monday
Weekday(dt) == dt.day % DaysPerWeek

\* dt1 < dt2 that compares the dates only
DtLess_DateOnly(dt1, dt2) == dt1.day < dt2.day

\* dt1 < dt2 on datetimes
DtLess(dt1, dt2) ==
    \/ dt1.day < dt2.day
    \/ dt1.day = dt2.day /\ dt1.hour < dt2.hour
    \/ dt1.day = dt2.day /\ dt1.hour = dt2.hour /\ dt1.minute < dt2.minute
    \/ /\ dt1.day = dt2.day /\ dt1.hour = dt2.hour
       /\ dt1.minute = dt2.minute /\ dt1.second < dt2.second

\* datetime + timedelta(minutes=m)
DtPlusMinutes(dt, m) == FromTimestamp(ToTimestamp(dt) + m * SecsPerMinute)

\* membership of a value in a Python list
InList(x, lst) == \E i \in 1..Len(lst) : lst[i] = x

\* sorted(list(set(lst))) if lst else []
RECURSIVE SortedSet(_)
SortedSet(S) ==
    IF S = {} THEN << >>
    ELSE LET m == CHOOSE x \in S : \A y \in S : x <= y
         IN <<m>> \o SortedSet(S \ {m})

NormRepeatDays(lst) ==
    IF Len(lst) > 0 THEN SortedSet({lst[i] : i \in 1..Len(lst)}) ELSE << >>

----------------------------------------------------------------------------
(* class Alarm *)

\* Alarm.__init__; feed_options is << >> for None and <<v>> for the dict v
NewAlarm(alarm_time, label, repeat_days, enabled, alarm_id, feed_type, feed_options) ==
    [alarm_id               |-> alarm_id,
     alarm_time             |-> alarm_time,
     label                  |-> label,
     repeat_days            |-> NormRepeatDays(repeat_days),
     enabled                |-> enabled,
     is_snoozing            |-> FALSE,
     snooze_until_timestamp |-> None,
     feed_type              |-> feed_type,
     feed_options           |-> IF feed_options # << >>
                                THEN feed_options[1] ELSE NoOptions]

\* property snooze_until_datetime (getter): a timestamp of 0 is falsy
snooze_until_datetime(alarm) ==
    IF alarm.snooze_until_timestamp # None /\ alarm.snooze_until_timestamp # 0
    THEN FromTimestamp(alarm.snooze_until_timestamp)
    ELSE NoneDt

\* property snooze_until_datetime (setter)
set_snooze_until_datetime(alarm, dt) ==
    IF dt # NoneDt
    THEN [alarm EXCEPT !.snooze_until_timestamp = ToTimestamp(dt)]
    ELSE [alarm EXCEPT !.snooze_until_timestamp = None]

\* Alarm.enable
AlarmEnable(alarm) ==
    set_snooze_until_datetime(
        [alarm EXCEPT !.enabled = TRUE, !.is_snoozing = FALSE], NoneDt)

\* Alarm.disable
AlarmDisable(alarm) ==
    set_snooze_until_datetime(
        [alarm EXCEPT !.enabled = FALSE, !.is_snoozing = FALSE], NoneDt)

\* Alarm.snooze; nowDt is datetime.datetime.now()
AlarmSnooze(alarm, minutes, nowDt) ==
    IF alarm.enabled
    THEN set_snooze_until_datetime([alarm EXCEPT !.is_snoozing = TRUE],
                                   DtPlusMinutes(nowDt, minutes))
    ELSE alarm

\* Alarm.update that clears the snooze whenever enabled is supplied
AlarmUpdate_AnyEnabledClearsSnooze(alarm, alarm_time, label, repeat_days, enabled, feed_type, feed_options) ==
    LET a1 == IF alarm_time # << >>
              THEN [alarm EXCEPT !.alarm_time = alarm_time[1]] ELSE alarm
        a2 == IF label # << >> THEN [a1 EXCEPT !.label = label[1]] ELSE a1
        a3 == IF repeat_days # << >>
              THEN [a2 EXCEPT !.repeat_days = NormRepeatDays(repeat_days[1])]
              ELSE a2
        a4 == IF enabled # << >>
              THEN set_snooze_until_datetime(
                       [a3 EXCEPT !.enabled = enabled[1],
                                  !.is_snoozing = FALSE], NoneDt)
              ELSE a3
        a5 == IF feed_type # << >>
              THEN [a4 EXCEPT !.feed_type = feed_type[1]] ELSE a4
        a6 == IF feed_options # << >>
              THEN [a5 EXCEPT !.feed_options = feed_options[1]] ELSE a5
    IN a6

\* Alarm.update; an argument is << >> when it is not supplied (None) and
\* <<v>> when it is v
AlarmUpdate(alarm, alarm_time, label, repeat_days, enabled, feed_type, feed_options) ==
    LET a1 == IF alarm_time # << >>
              THEN [alarm EXCEPT !.alarm_time = alarm_time[1]] ELSE alarm
        a2 == IF label # << >> THEN [a1 EXCEPT !.label = label[1]] ELSE a1
        a3 == IF repeat_days # << >>
              THEN [a2 EXCEPT !.repeat_days = NormRepeatDays(repeat_days[1])]
              ELSE a2
        a4 == IF enabled # << >>
              THEN IF ~enabled[1]
                   THEN set_snooze_until_datetime(
                            [a3 EXCEPT !.enabled = FALSE,
                                       !.is_snoozing = FALSE], NoneDt)
                   ELSE [a3 EXCEPT !.enabled = TRUE]
              ELSE a3
        a5 == IF feed_type # << >>
              THEN [a4 EXCEPT !.feed_type = feed_type[1]] ELSE a4
        a6 == IF feed_options # << >>
              THEN [a5 EXCEPT !.feed_options = feed_options[1]] ELSE a5
    IN a6

\* alarm_time.strftime("%H:%M") with the seconds left out of the format
strftime_NoSeconds(t) == <<t.hour, t.minute, 0>>

\* alarm_time.strftime("%H:%M:%S"): the string, as its three numbers
strftime(t) == <<t.hour, t.minute, t.second>>

\* datetime.datetime.strptime(s, "%H:%M:%S").time()
strptime(s) ==
    [hour |-> s[1], minute |-> s[2], second |-> s[3], microsecond |-> 0]

\* Alarm.to_dict
to_dict(alarm) ==
    [alarm_id               |-> alarm.alarm_id,
     alarm_time             |-> strftime(alarm.alarm_time),
     label                  |-> alarm.label,
     repeat_days            |-> alarm.repeat_days,
     enabled                |-> alarm.enabled,
     is_snoozing            |-> alarm.is_snoozing,
     snooze_until_timestamp |-> alarm.snooze_until_timestamp,
     feed_type              |-> alarm.feed_type,
     feed_options           |-> alarm.feed_options]

\* data.get(key, default)
DictGet(data, key, default) ==
    IF key \in DOMAIN data THEN data[key] ELSE default

\* Alarm.from_dict; nowDt is datetime.datetime.now()
from_dict(data, nowDt) ==
    LET a0 == NewAlarm(strptime(data.alarm_time), data.label,
                       data.repeat_days, data.enabled, data.alarm_id,
                       DictGet(data, "feed_type", "daily_news"),
                       <<DictGet(data, "feed_options", NoOptions)>>)
        a1 == [a0 EXCEPT !.is_snoozing = DictGet(data, "is_snoozing", FALSE)]
        ts == DictGet(data, "snooze_until_timestamp", None)
        a2 == IF ts # None
              THEN [a1 EXCEPT !.snooze_until_timestamp = ts]
              ELSE a1
    IN IF /\ a2.is_snoozing
          /\ snooze_until_datetime(a2) # NoneDt
          /\ DtLess(snooze_until_datetime(a2), nowDt)
       THEN set_snooze_until_datetime([a2 EXCEPT !.is_snoozing = FALSE],
                                      NoneDt)
       ELSE a2

\* TimeMatches with the comparison of the hour left out
TimeMatches_IgnoresHour(alarm, dt) ==
    IF dt.minute = alarm.alarm_time.minute
    THEN IF Len(alarm.repeat_days) = 0
         THEN TRUE
         ELSE InList(Weekday(dt), alarm.repeat_days)
    ELSE FALSE

\* the hour, minute and weekday test of Alarm.should_trigger (lines 172-182)
TimeMatches(alarm, dt) ==
    IF dt.hour = alarm.alarm_time.hour /\ dt.minute = alarm.alarm_time.minute
    THEN IF Len(alarm.repeat_days) = 0
         THEN TRUE
         ELSE InList(Weekday(dt), alarm.repeat_days)
    ELSE FALSE

\* should_trigger without the test of the snooze state
should_trigger_IgnoresSnooze(alarm, dt) ==
    IF ~alarm.enabled
    THEN [ret |-> FALSE, alarm |-> alarm]
    ELSE [ret |-> TimeMatches(alarm, dt), alarm |-> alarm]

\* should_trigger without the test of the enabled flag
should_trigger_IgnoresEnabled(alarm, dt) ==
    IF alarm.is_snoozing
    THEN IF /\ snooze_until_datetime(alarm) # NoneDt
            /\ ~DtLess(dt, snooze_until_datetime(alarm))
         THEN [ret |-> TRUE,
               alarm |-> set_snooze_until_datetime(
                             [alarm EXCEPT !.is_snoozing = FALSE], NoneDt)]
         ELSE [ret |-> FALSE, alarm |-> alarm]
    ELSE [ret |-> TimeMatches(alarm, dt), alarm |-> alarm]

\* Alarm.should_trigger: the value returned and the alarm as it is left
should_trigger(alarm, dt) ==
    IF ~alarm.enabled
    THEN [ret |-> FALSE, alarm |-> alarm]
    ELSE IF alarm.is_snoozing
    THEN IF /\ snooze_until_datetime(alarm) # NoneDt
            /\ ~DtLess(dt, snooze_until_datetime(alarm))
         THEN [ret |-> TRUE,
               alarm |-> set_snooze_until_datetime(
                             [alarm EXCEPT !.is_snoozing = FALSE], NoneDt)]
         ELSE [ret |-> FALSE, alarm |-> alarm]
    ELSE [ret |-> TimeMatches(alarm, dt), alarm |-> alarm]

----------------------------------------------------------------------------
(* class AlarmManager *)

VARIABLES
    now,        \* the wall clock, a timestamp
    alarms,     \* self.alarms: insertion-ordered dict, a sequence of Alarms
    last_triggered_minute,  \* self._last_triggered_minute: id -> <<hour, minute>>
    actively_sounding_alarm_ids,    \* self.actively_sounding_alarm_ids
    file,       \* the content of alarms_file: a sequence of dicts
    last,       \* history: the last call and what it returned
    hist,       \* history: per id, when a scan last returned the alarm
    driver,     \* the thread of alarm_checking_loop
    spent,      \* history: the one-time alarms that fired and were not
                \* snoozed or re-armed since
    task        \* newalarm.py: an AlarmTask, its thread and the audio player

vars == <<now, alarms, last_triggered_minute, actively_sounding_alarm_ids,
          file, last, hist, driver, spent, task>>

\* the keys of an insertion-ordered dict
Keys(d) == {d[i].alarm_id : i \in 1..Len(d)}

\* position of a key in the dict
IndexOf(d, id) == CHOOSE i \in 1..Len(d) : d[i].alarm_id = id

\* self.alarms[id]
AlarmOf(d, id) == d[IndexOf(d, id)]

\* AlarmManager.get_alarm: << >> is None, <<alarm>> is the alarm found
get_alarm(d, id) == IF id \in Keys(d) THEN <<AlarmOf(d, id)>> ELSE << >>

\* self.alarms[id] = alarm
DictSet(d, alarm) ==
    IF alarm.alarm_id \in Keys(d)
    THEN [d EXCEPT ![IndexOf(d, alarm.alarm_id)] = alarm]
    ELSE Append(d, alarm)

\* del self.alarms[id]
DictDel(d, id) ==
    LET k == IndexOf(d, id)
    IN [i \in 1..(Len(d) - 1) |-> IF i < k THEN d[i] ELSE d[i + 1]]

\* self._last_triggered_minute.get(id)
CacheGet(c, id) == IF id \in DOMAIN c THEN c[id] ELSE NoKey

\* self._last_triggered_minute[id] = key
CacheSet(c, id, key) ==
    [x \in DOMAIN c \cup {id} |-> IF x = id THEN key ELSE c[x]]

\* del self._last_triggered_minute[id]
CacheDel(c, id) == [x \in DOMAIN c \ {id} |-> c[x]]

\* AlarmManager.save_alarms: the list written to the file
SavedData(d) == [i \in 1..Len(d) |-> to_dict(d[i])]

\* the loop of AlarmManager.load_alarms over the records of the file
RECURSIVE LoadRecords(_, _, _)
LoadRecords(data, d, nowDt) ==
    IF data = << >> THEN d
    ELSE LoadRecords(Tail(data), DictSet(d, from_dict(Head(data), nowDt)),
                     nowDt)

\* the last loop of AlarmManager.load_alarms: snoozes that have passed
ResetPassedSnooze(alarm, nowDt) ==
    IF /\ alarm.is_snoozing
       /\ snooze_until_datetime(alarm) # NoneDt
       /\ DtLess(snooze_until_datetime(alarm), nowDt)
    THEN set_snooze_until_datetime([alarm EXCEPT !.is_snoozing = FALSE],
                                   NoneDt)
    ELSE alarm

\* AlarmManager.load_alarms
load_alarms(data, nowDt) ==
    LET d == LoadRecords(data, << >>, nowDt)
    IN [i \in 1..Len(d) |-> ResetPassedSnooze(d[i], nowDt)]

\* ScanOne without the same-minute de-duplication
ScanOne_NoDedup(st, i, nowDt) ==
    LET key   == <<nowDt.hour, nowDt.minute>>
        id    == st.alarms[i].alarm_id
        r     == should_trigger(st.alarms[i], nowDt)
        cur   == [st EXCEPT !.alarms[i] = r.alarm]
    IN IF r.ret
       THEN [cur EXCEPT !.trig = @ \cup {id},
                        !.active = @ \cup {id},
                        !.result = Append(@, id),
                        !.cache = CacheSet(@, id, key)]
       ELSE IF CacheGet(st.cache, id) # NoKey /\ CacheGet(st.cache, id) # key
            THEN [cur EXCEPT !.cache = CacheDel(@, id)]
            ELSE cur

\* ScanOne that leaves the cache entry of an alarm that does not trigger
ScanOne_KeepsStale(st, i, nowDt) ==
    LET key   == <<nowDt.hour, nowDt.minute>>
        id    == st.alarms[i].alarm_id
        r     == should_trigger(st.alarms[i], nowDt)
        cur   == [st EXCEPT !.alarms[i] = r.alarm]
    IN IF r.ret
       THEN IF ~r.alarm.is_snoozing /\ CacheGet(st.cache, id) = key
            THEN [cur EXCEPT !.trig = @ \cup {id}]
            ELSE [cur EXCEPT !.trig = @ \cup {id},
                             !.active = @ \cup {id},
                             !.result = Append(@, id),
                             !.cache = CacheSet(@, id, key)]
       ELSE cur

\* one iteration of the loop of check_and_trigger_alarms, on the alarm at
\* position i; st holds the alarms, the cache, the active set, the list
\* returned so far and the ids for which should_trigger returned True
ScanOne(st, i, nowDt) ==
    LET key   == <<nowDt.hour, nowDt.minute>>
        id    == st.alarms[i].alarm_id
        r     == should_trigger(st.alarms[i], nowDt)
        alarm == r.alarm
        cur   == [st EXCEPT !.alarms[i] = alarm]
    IN IF r.ret
       THEN IF ~alarm.is_snoozing /\ CacheGet(st.cache, id) = key
            THEN [cur EXCEPT !.trig = @ \cup {id}]
            ELSE LET active == st.active \cup {id}
                     fired  == [cur EXCEPT
                                  !.trig = @ \cup {id},
                                  !.active = active,
                                  !.result = Append(@, id),
                                  !.cache = CacheSet(@, id, key)]
                 IN IF /\ Len(alarm.repeat_days) = 0
                       /\ alarm.alarm_id \notin active
                       /\ ~alarm.is_snoozing
                    THEN [fired EXCEPT !.alarms[i] = AlarmDisable(alarm)]
                    ELSE fired
       ELSE IF CacheGet(st.cache, id) # NoKey /\ CacheGet(st.cache, id) # key
            THEN [cur EXCEPT !.cache = CacheDel(@, id)]
            ELSE cur

\* the loop of check_and_trigger_alarms from position i on
RECURSIVE ScanFrom(_, _, _)
ScanFrom(st, i, nowDt) ==
    IF i > Len(st.alarms) THEN st
    ELSE ScanFrom(ScanOne(st, i, nowDt), i + 1, nowDt)

\* AlarmManager.check_and_trigger_alarms
check_and_trigger_alarms(d, cache, active, nowDt) ==
    ScanFrom([alarms |-> d, cache |-> cache, active |-> active,
              result |-> << >>, trig |-> {}], 1, nowDt)

----------------------------------------------------------------------------
(* The file found when the manager is constructed *)

PastTs == StartTime - 1
FutureTs == StartTime + SecsPerMinute + 1

\* records of a file that any earlier run, or an editor, may have left
InitRecords ==
    [alarm_id : {"a"},
     alarm_time : {strftime(t) : t \in AlarmTimes},
     label : {LabelOf["a"]},
     repeat_days : {<< >>, <<0, 1>>},
     enabled : BOOLEAN,
     is_snoozing : BOOLEAN,
     snooze_until_timestamp : {None, PastTs, FutureTs},
     feed_type : {"daily_news"},
     feed_options : {NoOptions}]

InitFiles == {<< >>} \cup {<<r>> : r \in InitRecords}

\* History kept for the properties.  hist[id].fired: a scan of this manager
\* returned the alarm id during the current minute of the clock.
\* hist[id].key is the <<hour, minute>> of the last scan that returned the
\* alarm id, as long as every scan since was made in the same
\* <<hour, minute>> and the alarm was not snoozed, removed or created
\* since; NoKey otherwise.
NoHist == [key |-> NoKey, fired |-> FALSE]

AbsMinute(ts) == ts \div SecsPerMinute

HistReset(h, id) == [h EXCEPT ![id] = NoHist]

HistAfterTime(h, ts1, ts2) ==
    IF AbsMinute(ts2) # AbsMinute(ts1)
    THEN [id \in AlarmIds |-> [h[id] EXCEPT !.fired = FALSE]]
    ELSE h

HistAfterScan(h, result, dt) ==
    LET key == <<dt.hour, dt.minute>>
    IN [id \in AlarmIds |->
          IF InList(id, result)
          THEN [key |-> key, fired |-> TRUE]
          ELSE IF h[id].key # key THEN [h[id] EXCEPT !.key = NoKey]
          ELSE h[id]]

\* the locals of check_and_trigger_alarms when no scan is running on the
\* thread of the driver: the position and the expected size of the
\* iterator, the time read, triggered_alarms_now, the ids found due
NoScan == [i |-> 0, used |-> 0, now |-> 0, result |-> << >>, trig |-> {}]

\* the thread of alarm_checking_loop before its first iteration: where it
\* is, the locals of its scan, the ids of the alarms of triggered_alarms
\* still to be processed, how the last call of
\* process_single_triggered_alarm ended, shutdown_event; and as history
\* the list its last scan returned and what the for loop has done with it
DriverStart ==
    [pc |-> "loop", scan |-> NoScan, triggered_alarms |-> << >>,
     outcome |-> "none", shutdown_event |-> FALSE,
     returned |-> << >>, log |-> << >>]

\* an AlarmTask as AlarmScheduler.add_alarm leaves it, no thread of
\* _generate_and_play_audio, no thread in AlarmTask.stop, no audio process
TaskStart ==
    [is_active |-> FALSE, stop_event |-> FALSE, pc |-> "idle",
     stopper |-> "idle", playing |-> "none", returncode |-> "none",
     system_enabled |-> TRUE, requested |-> FALSE, calls |-> << >>]

\* AlarmManager.__init__
Init ==
    /\ now = StartTime
    /\ file \in InitFiles
    /\ alarms = load_alarms(file, FromTimestamp(now))
    /\ last_triggered_minute = << >>
    /\ actively_sounding_alarm_ids = {}
    /\ last = [op |-> "init"]
    /\ hist = [id \in AlarmIds |-> NoHist]
    /\ driver = DriverStart
    /\ spent = {}
    /\ task = TaskStart

----------------------------------------------------------------------------
(* Operations *)

\* a second passes
Tick ==
    /\ now % TicksPerDay < LastSecond
    /\ now' = now + 1
    /\ last' = [op |-> "other"]
    /\ hist' = HistAfterTime(hist, now, now')
    /\ UNCHANGED <<alarms, last_triggered_minute,
                   actively_sounding_alarm_ids, file, driver, spent, task>>

\* a day passes in which the manager is not called
NextDay ==
    /\ now \div TicksPerDay < MaxDays - 1
    /\ now' = now + TicksPerDay
    /\ last' = [op |-> "other"]
    /\ hist' = HistAfterTime(hist, now, now')
    /\ UNCHANGED <<alarms, last_triggered_minute,
                   actively_sounding_alarm_ids, file, driver, spent, task>>

\* create_alarm that replaces an alarm already stored under the id
create_alarm_Overwrites(id, alarm_time, repeat_days, enabled) ==
    LET alarm == NewAlarm(alarm_time, LabelOf[id], repeat_days, enabled, id,
                          "daily_news", << >>)
    IN /\ alarms' = DictSet(alarms, alarm)
       /\ file' = SavedData(alarms')
       /\ hist' = HistReset(hist, id)
       /\ UNCHANGED <<now, last_triggered_minute,
                      actively_sounding_alarm_ids>>

\* AlarmManager.create_alarm / add_alarm_obj
create_alarm(id, alarm_time, repeat_days, enabled) ==
    LET alarm == NewAlarm(alarm_time, LabelOf[id], repeat_days, enabled, id,
                          "daily_news", << >>)
    IN /\ IF id \in Keys(alarms)
          THEN UNCHANGED <<alarms, file, hist>>
          ELSE /\ alarms' = DictSet(alarms, alarm)
               /\ file' = SavedData(alarms')
               /\ hist' = HistReset(hist, id)
       /\ UNCHANGED <<now, last_triggered_minute,
                      actively_sounding_alarm_ids>>

\* the value create_alarm returns when the alarms were d: << >> is None
create_alarm_ret(d, d2, id) ==
    IF id \in Keys(d) THEN << >> ELSE <<AlarmOf(d2, id)>>

\* remove_alarm that leaves the entry of the last-triggered cache
remove_alarm_KeepsCache(id) ==
    /\ IF id \in Keys(alarms)
       THEN /\ alarms' = DictDel(alarms, id)
            /\ file' = SavedData(alarms')
            /\ hist' = HistReset(hist, id)
       ELSE UNCHANGED <<alarms, file, hist>>
    /\ UNCHANGED <<now, last_triggered_minute, actively_sounding_alarm_ids>>

\* AlarmManager.remove_alarm
remove_alarm(id) ==
    /\ IF id \in Keys(alarms)
       THEN /\ alarms' = DictDel(alarms, id)
            /\ last_triggered_minute' =
                   IF id \in DOMAIN last_triggered_minute
                   THEN CacheDel(last_triggered_minute, id)
                   ELSE last_triggered_minute
            /\ file' = SavedData(alarms')
            /\ hist' = HistReset(hist, id)
       ELSE UNCHANGED <<alarms, last_triggered_minute, file, hist>>
    /\ UNCHANGED <<now, actively_sounding_alarm_ids>>

\* update_alarm that stores a new alarm when the id is not found
update_alarm_Upserts(id, alarm_time, repeat_days, enabled) ==
    LET old == IF id \in Keys(alarms) THEN AlarmOf(alarms, id)
               ELSE NewAlarm(FixedTime, LabelOf[id], << >>, TRUE, id,
                             "daily_news", << >>)
    IN /\ alarms' = DictSet(alarms,
                         AlarmUpdate(old, alarm_time, << >>, repeat_days,
                                     enabled, << >>, << >>))
       /\ file' = SavedData(alarms')
       /\ UNCHANGED <<now, last_triggered_minute,
                      actively_sounding_alarm_ids, hist>>

\* AlarmManager.update_alarm
update_alarm(id, alarm_time, repeat_days, enabled) ==
    /\ IF id \in Keys(alarms)
       THEN /\ alarms' = DictSet(alarms,
                             AlarmUpdate(AlarmOf(alarms, id), alarm_time,
                                         << >>, repeat_days, enabled,
                                         << >>, << >>))
            /\ file' = SavedData(alarms')
       ELSE UNCHANGED <<alarms, file>>
    /\ UNCHANGED <<now, last_triggered_minute, actively_sounding_alarm_ids,
                   hist>>

\* the value update_alarm returns when the alarms were d: << >> is None
update_alarm_ret(d, d2, id) ==
    IF id \in Keys(d) THEN <<AlarmOf(d2, id)>> ELSE << >>

\* AlarmManager.enable_alarm
enable_alarm(id) ==
    /\ IF id \in Keys(alarms)
       THEN /\ alarms' = DictSet(alarms, AlarmEnable(AlarmOf(alarms, id)))
            /\ file' = SavedData(alarms')
       ELSE UNCHANGED <<alarms, file>>
    /\ UNCHANGED <<now, last_triggered_minute, actively_sounding_alarm_ids,
                   hist>>

\* AlarmManager.disable_alarm
disable_alarm(id) ==
    /\ IF id \in Keys(alarms)
       THEN /\ alarms' = DictSet(alarms, AlarmDisable(AlarmOf(alarms, id)))
            /\ file' = SavedData(alarms')
       ELSE UNCHANGED <<alarms, file>>
    /\ UNCHANGED <<now, last_triggered_minute, actively_sounding_alarm_ids,
                   hist>>

\* the alarms and the file after AlarmManager.snooze_alarm(id, minutes)
SnoozeEffect(d, f, id, minutes, nowDt) ==
    IF id \in Keys(d) /\ AlarmOf(d, id).enabled
    THEN LET d2 == DictSet(d, AlarmSnooze(AlarmOf(d, id), minutes, nowDt))
         IN [alarms |-> d2, file |-> SavedData(d2), ok |-> TRUE]
    ELSE [alarms |-> d, file |-> f, ok |-> FALSE]

\* AlarmManager.snooze_alarm
snooze_alarm(id, minutes) ==
    LET e == SnoozeEffect(alarms, file, id, minutes, FromTimestamp(now))
    IN /\ alarms' = e.alarms
       /\ file' = e.file
       /\ hist' = IF e.ok THEN [hist EXCEPT ![id].key = NoKey] ELSE hist
       /\ UNCHANGED <<now, last_triggered_minute,
                      actively_sounding_alarm_ids>>

\* the lists in which list(self.actively_sounding_alarm_ids) may enumerate
\* the set
Orders(S) ==
    {o \in [1..Cardinality(S) -> S] : \A i, j \in DOMAIN o : o[i] = o[j] => i = j}

\* RequestOne that also snoozes a disabled alarm of the active set
RequestOne_SnoozesDisabled(st, id, minutes, nowDt) ==
    LET alarm == get_alarm(st.alarms, id)
    IN IF alarm # << >>
       THEN LET d2 == DictSet(st.alarms,
                         set_snooze_until_datetime(
                             [alarm[1] EXCEPT !.is_snoozing = TRUE],
                             DtPlusMinutes(nowDt, minutes)))
            IN [st EXCEPT !.alarms = d2,
                          !.file = SavedData(d2),
                          !.labels = Append(@, alarm[1].label),
                          !.snoozed = @ \cup {id}]
       ELSE [st EXCEPT !.active = @ \ {id}]

\* one iteration of the loop of request_snooze_for_active_alarms, on the id
\* alarm_id; st holds the alarms, the file, the active set, snoozed_labels
\* and the ids for which snooze_alarm was called
RequestOne(st, id, minutes, nowDt) ==
    LET alarm == get_alarm(st.alarms, id)
    IN IF alarm # << >> /\ alarm[1].enabled
       THEN LET e == SnoozeEffect(st.alarms, st.file, id, minutes, nowDt)
            IN [st EXCEPT !.alarms = e.alarms,
                          !.file = e.file,
                          !.labels = Append(@, alarm[1].label),
                          !.snoozed = @ \cup {id}]
       ELSE IF alarm # << >> /\ ~alarm[1].enabled
            THEN st
            ELSE [st EXCEPT !.active = @ \ {id}]

\* the loop of request_snooze_for_active_alarms over the ids of order from
\* position i on
RECURSIVE RequestFrom(_, _, _, _, _)
RequestFrom(st, order, i, minutes, nowDt) ==
    IF i > Len(order) THEN st
    ELSE RequestFrom(RequestOne(st, order[i], minutes, nowDt), order, i + 1,
                     minutes, nowDt)

\* AlarmManager.request_snooze_for_active_alarms: the state it leaves and
\* the labels it returns; order is the enumeration of the active set
RequestSnoozeEffect(d, f, active, order, minutes, nowDt) ==
    LET st == [alarms |-> d, file |-> f, active |-> active,
               labels |-> << >>, snoozed |-> {}]
    IN IF active = {} THEN st
       ELSE RequestFrom(st, order, 1, minutes, nowDt)

\* AlarmManager.request_snooze_for_active_alarms
request_snooze_for_active_alarms(order, minutes) ==
    LET e == RequestSnoozeEffect(alarms, file, actively_sounding_alarm_ids,
                                 order, minutes, FromTimestamp(now))
    IN /\ alarms' = e.alarms
       /\ file' = e.file
       /\ actively_sounding_alarm_ids' = e.active
       /\ hist' = [id \in AlarmIds |->
                      IF id \in e.snoozed
                      THEN [hist[id] EXCEPT !.key = NoKey] ELSE hist[id]]
       /\ UNCHANGED <<now, last_triggered_minute>>

\* mark_alarm_processing_complete that empties the active set
mark_alarm_processing_complete_ClearsAll(id) ==
    /\ actively_sounding_alarm_ids' = {}
    /\ UNCHANGED <<now, alarms, last_triggered_minute, file, hist>>

\* AlarmManager.mark_alarm_processing_complete
mark_alarm_processing_complete(id) ==
    /\ actively_sounding_alarm_ids' =
           IF id \in actively_sounding_alarm_ids
           THEN actively_sounding_alarm_ids \ {id}
           ELSE actively_sounding_alarm_ids
    /\ UNCHANGED <<now, alarms, last_triggered_minute, file, hist>>

\* AlarmManager.check_and_trigger_alarms, called at the current time
Scan ==
    LET st == check_and_trigger_alarms(alarms, last_triggered_minute,
                                       actively_sounding_alarm_ids,
                                       FromTimestamp(now))
    IN /\ alarms' = st.alarms
       /\ last_triggered_minute' = st.cache
       /\ actively_sounding_alarm_ids' = st.active
       /\ last' = [op |-> "scan", result |-> st.result, trig |-> st.trig]
       /\ hist' = HistAfterScan(hist, st.result, FromTimestamp(now))
       /\ UNCHANGED <<now, file, driver, spent, task>>

\* the process is restarted: a new AlarmManager is constructed on the file
Restart ==
    /\ alarms' = load_alarms(file, FromTimestamp(now))
    /\ last_triggered_minute' = << >>
    /\ actively_sounding_alarm_ids' = {}
    /\ last' = [op |-> "init"]
    /\ hist' = [id \in AlarmIds |-> NoHist]
    /\ UNCHANGED <<now, file, driver, spent, task>>

\* a call of which the history keeps only that it was made
Quiet == last' = [op |-> "other"] /\ UNCHANGED <<driver, spent, task>>

Next ==
    \/ Tick
    \/ NextDay
    \/ Quiet /\ \E t \in AlarmTimes, r \in RepeatInputs, e \in BOOLEAN :
                   create_alarm("a", t, r, e)
    \/ Quiet /\ create_alarm("b", FixedTime, << >>, TRUE)
    \/ Quiet /\ \E id \in AlarmIds : remove_alarm(id)
    \/ Quiet /\ \E t \in UpdateTimes, r \in UpdateRepeats,
                   e \in UpdateEnabled : update_alarm("a", t, r, e)
    \/ Quiet /\ enable_alarm("a")
    \/ Quiet /\ disable_alarm("a")
    \/ Quiet /\ \E m \in SnoozeMinutes : snooze_alarm("a", m)
    \/ Quiet /\ \E id \in AlarmIds : mark_alarm_processing_complete(id)
    \/ Scan
    \/ Restart

Spec == Init /\ [][Next]_vars

----------------------------------------------------------------------------
(* The calls of the manager made within one second, with the history of the
   last call kept in full: its name, its argument and the value returned *)

Called(c) == last' = c /\ UNCHANGED <<driver, spent, task>>

NextCalls ==
    \/ \E t \in AlarmTimes, r \in RepeatInputs, e \in BOOLEAN :
          /\ create_alarm("a", t, r, e)
          /\ Called([op |-> "create_alarm", id |-> "a",
                     ret |-> create_alarm_ret(alarms, alarms', "a")])
    \/ /\ create_alarm("b", FixedTime, << >>, TRUE)
       /\ Called([op |-> "create_alarm", id |-> "b",
                  ret |-> create_alarm_ret(alarms, alarms', "b")])
    \/ \E id \in AlarmIds :
          remove_alarm(id) /\ Called([op |-> "remove_alarm", id |-> id])
    \/ \E t \in UpdateTimes, r \in UpdateRepeats, e \in UpdateEnabled :
          /\ update_alarm("a", t, r, e)
          /\ Called([op |-> "update_alarm", id |-> "a",
                     ret |-> update_alarm_ret(alarms, alarms', "a")])
    \/ enable_alarm("a") /\ Called([op |-> "enable_alarm", id |-> "a"])
    \/ disable_alarm("a") /\ Called([op |-> "disable_alarm", id |-> "a"])
    \/ \E m \in SnoozeMinutes :
          snooze_alarm("a", m) /\ Called([op |-> "snooze_alarm", id |-> "a"])
    \/ \E o \in Orders(actively_sounding_alarm_ids) :
          /\ request_snooze_for_active_alarms(o, RequestMinutes)
          /\ Called([op |-> "request_snooze_for_active_alarms",
                     minutes |-> RequestMinutes,
                     ret |-> RequestSnoozeEffect(
                                 alarms, file, actively_sounding_alarm_ids,
                                 o, RequestMinutes,
                                 FromTimestamp(now)).labels])
    \/ \E id \in AlarmIds :
          /\ mark_alarm_processing_complete(id)
          /\ Called([op |-> "mark_alarm_processing_complete", id |-> id])
    \/ Scan

SpecCalls == Init /\ [][NextCalls]_vars

----------------------------------------------------------------------------
(* The driver: alarm_checking_loop of webui.py on its thread, while the
   request handlers call the manager and the clock runs *)

\* how a call of process_single_triggered_alarm can end: the generated
\* audio was played, a step failed and the call returned after the default
\* sound or in silence, or an exception was raised
ProcessOutcomes == {"played", "fallback", "raised"}

\* while not shutdown_event.is_set(): check_and_trigger_alarms() is
\* entered: it reads the clock and starts to iterate over the mapping.  No
\* lock is held, and the steps of the scan interleave with the calls of
\* the request handlers.
DriverLoop ==
    /\ driver.pc = "loop"
    /\ driver' = IF driver.shutdown_event
                 THEN [driver EXCEPT !.pc = "stopped"]
                 ELSE [driver EXCEPT
                         !.pc = "scan",
                         !.scan = [i |-> 1, used |-> Len(alarms),
                                   now |-> now, result |-> << >>,
                                   trig |-> {}]]
    /\ UNCHANGED <<now, alarms, last_triggered_minute,
                   actively_sounding_alarm_ids, file, last, hist, spent,
                   task>>

\* the iterator of self.alarms.items() finds that the size of the mapping
\* is no longer the size it had when the iteration began
ChangedSize == driver.pc = "scan" /\ Len(alarms) # driver.scan.used

\* one step of the loop of check_and_trigger_alarms on the thread of the
\* driver: the iterator raises RuntimeError (dictionary changed size during
\* iteration), which the outer except clause of the driver catches; or the
\* iteration is over and the list is returned; or the next alarm is
\* evaluated
DriverScan ==
    /\ driver.pc = "scan"
    /\ IF ChangedSize
       THEN /\ driver' = [driver EXCEPT !.pc = "wait", !.scan = NoScan]
            /\ UNCHANGED <<alarms, last_triggered_minute,
                           actively_sounding_alarm_ids, last, hist>>
       ELSE IF driver.scan.i > Len(alarms)
       THEN /\ driver' = [driver EXCEPT
                            !.pc = "for",
                            !.triggered_alarms = driver.scan.result,
                            !.scan = NoScan,
                            !.returned = driver.scan.result,
                            !.log = << >>]
            /\ last' = [op |-> "scan", result |-> driver.scan.result,
                        trig |-> driver.scan.trig]
            /\ hist' = HistAfterScan(hist, driver.scan.result,
                                     FromTimestamp(driver.scan.now))
            /\ UNCHANGED <<alarms, last_triggered_minute,
                           actively_sounding_alarm_ids>>
       ELSE LET st == ScanOne([alarms |-> alarms,
                               cache |-> last_triggered_minute,
                               active |-> actively_sounding_alarm_ids,
                               result |-> driver.scan.result,
                               trig |-> driver.scan.trig],
                              driver.scan.i, FromTimestamp(driver.scan.now))
            IN /\ alarms' = st.alarms
               /\ last_triggered_minute' = st.cache
               /\ actively_sounding_alarm_ids' = st.active
               /\ driver' = [driver EXCEPT
                               !.scan.i = @ + 1,
                               !.scan.result = st.result,
                               !.scan.trig = st.trig]
               /\ UNCHANGED <<last, hist>>
    /\ UNCHANGED <<now, file, spent, task>>

\* a for loop that is left after the first alarm
DriverFor_BreaksAfterFirst ==
    /\ driver.pc = "for"
    /\ driver' = IF driver.triggered_alarms = << >>
                    \/ driver.shutdown_event
                    \/ driver.log # << >>
                 THEN [driver EXCEPT !.pc = "wait",
                                     !.triggered_alarms = << >>,
                                     !.outcome = "none"]
                 ELSE [driver EXCEPT !.pc = "process",
                                     !.outcome = "none"]
    /\ UNCHANGED <<now, alarms, last_triggered_minute,
                   actively_sounding_alarm_ids, file, last, hist, spent,
                   task>>

\* for alarm_instance in triggered_alarms: if shutdown_event.is_set(): break
DriverFor ==
    /\ driver.pc = "for"
    /\ driver' = IF driver.triggered_alarms = << >>
                    \/ driver.shutdown_event
                 THEN [driver EXCEPT !.pc = "wait",
                                     !.triggered_alarms = << >>,
                                     !.outcome = "none"]
                 ELSE [driver EXCEPT !.pc = "process",
                                     !.outcome = "none"]
    /\ UNCHANGED <<now, alarms, last_triggered_minute,
                   actively_sounding_alarm_ids, file, last, hist, spent,
                   task>>

\* process_single_triggered_alarm(alarm_instance, ...): an exception is
\* caught by the except clause, and the finally clause follows in each case
DriverProcess(outcome) ==
    /\ driver.pc = "process"
    /\ driver' = [driver EXCEPT
                     !.pc = "finally", !.outcome = outcome,
                     !.log = Append(@, <<"process",
                                         Head(driver.triggered_alarms)>>)]
    /\ UNCHANGED <<now, alarms, last_triggered_minute,
                   actively_sounding_alarm_ids, file, last, hist, spent,
                   task>>

\* finally: mark_alarm_processing_complete(alarm_instance.alarm_id); the
\* test of shutdown_event that follows is made by DriverFor
DriverFinally ==
    /\ driver.pc = "finally"
    /\ mark_alarm_processing_complete(Head(driver.triggered_alarms))
    /\ last' = [op |-> "mark_alarm_processing_complete",
                id |-> Head(driver.triggered_alarms)]
    /\ driver' = [driver EXCEPT
                     !.pc = "for",
                     !.triggered_alarms = Tail(driver.triggered_alarms),
                     !.log = Append(@, <<"mark",
                                         Head(driver.triggered_alarms)>>)]
    /\ UNCHANGED <<spent, task>>

\* shutdown_event.wait(ALARM_CHECK_INTERVAL_SECONDS)
DriverWait ==
    /\ driver.pc = "wait"
    /\ driver' = [driver EXCEPT !.pc = "loop"]
    /\ UNCHANGED <<now, alarms, last_triggered_minute,
                   actively_sounding_alarm_ids, file, last, hist, spent,
                   task>>

\* the next step of the thread
DriverStep ==
    \/ DriverLoop
    \/ DriverScan
    \/ DriverFor
    \/ \E o \in ProcessOutcomes : DriverProcess(o)
    \/ DriverFinally
    \/ DriverWait

\* cleanup_on_exit: shutdown_event.set()
Shutdown ==
    /\ ~driver.shutdown_event
    /\ driver' = [driver EXCEPT !.shutdown_event = TRUE]
    /\ UNCHANGED <<now, alarms, last_triggered_minute,
                   actively_sounding_alarm_ids, file, last, hist, spent,
                   task>>

\* a call made by a request handler on its own thread; at most one of them
\* changes the mapping while one scan runs
Handler == Quiet /\ ~ChangedSize

NextDriver ==
    \/ DriverStep
    \/ Shutdown
    \/ Tick
    \/ Handler /\ create_alarm("b", FixedTime, << >>, TRUE)
    \/ Handler /\ \E id \in AlarmIds : remove_alarm(id)

\* the application starts with a file of one enabled alarm that is not
\* snoozed
InitDriver ==
    /\ Init
    /\ Len(file) = 1
    /\ file[1].enabled
    /\ ~file[1].is_snoozing
    /\ file[1].snooze_until_timestamp = None

\* the thread of the loop is scheduled again and again, and every call of
\* process_single_triggered_alarm ends
SpecDriver == InitDriver /\ [][NextDriver]_vars /\ WF_vars(DriverStep)

----------------------------------------------------------------------------
(* newalarm.py: one AlarmTask of the AlarmScheduler of main.py.  task.pc is
   the position of the thread of _generate_and_play_audio, task.stopper the
   position of a thread inside AlarmTask.stop, task.playing the live mpg123
   process of audio_player (_playback_process), task.returncode the return
   code of the process the thread waits for.  task.requested records that
   a stop was requested after the thread had set is_active, task.calls the
   calls of generate_feed_content, text_to_speech_openai and
   play_audio_file that the thread has made, with what the first two
   returned. *)

TaskFrame ==
    UNCHANGED <<now, alarms, last_triggered_minute,
                actively_sounding_alarm_ids, file, hist, driver, spent>>

\* AlarmTask.run at the scheduled time: starts the thread unless is_active
TaskRun ==
    /\ task.pc = "idle" /\ ~task.is_active
    /\ task' = [task EXCEPT !.pc = "begin", !.requested = FALSE,
                            !.calls = << >>]
    /\ TaskFrame

\* self.is_active = True
TaskSetActive ==
    /\ task.pc = "begin"
    /\ task' = [task EXCEPT !.is_active = TRUE, !.pc = "clear"]
    /\ TaskFrame

\* self.stop_event.clear()
TaskClear ==
    /\ task.pc = "clear"
    /\ task' = [task EXCEPT !.stop_event = FALSE, !.pc = "key"]
    /\ TaskFrame

\* if not OPENAI_API_KEY: self._play_default_sound()
TaskKey ==
    /\ task.pc = "key"
    /\ \E key \in BOOLEAN :
          task' = [task EXCEPT !.pc = IF key THEN "feed" ELSE "default"]
    /\ TaskFrame

\* feed_text = generate_feed_content(...); default sound if it is empty
TaskFeed ==
    /\ task.pc = "feed"
    /\ \E feed_text \in BOOLEAN :
          task' = [task EXCEPT !.pc = IF feed_text THEN "tts" ELSE "default",
                               !.calls = Append(@, <<"feed", feed_text>>)]
    /\ TaskFrame

\* tts_success = text_to_speech_openai(...); default sound if it failed
TaskTts ==
    /\ task.pc = "tts"
    /\ \E tts_success \in BOOLEAN :
          task' = [task EXCEPT
                      !.pc = IF tts_success THEN "check" ELSE "default",
                      !.calls = Append(@, <<"tts", tts_success>>)]
    /\ TaskFrame

\* if self.stop_event.is_set(): cleanup and return
TaskCheck ==
    /\ task.pc = "check"
    /\ task' = [task EXCEPT
                   !.pc = IF task.stop_event THEN "finish" ELSE "popen"]
    /\ TaskFrame

\* stop_audio(): terminates the live process, _playback_process = None
stop_audio(t) ==
    IF t.playing # "none"
    THEN [t EXCEPT !.playing = "none", !.returncode = "nonzero"]
    ELSE t

\* play_audio_file up to subprocess.Popen, for the generated file (what =
\* "generated", then = "wait") or the default sound
Popen(what, then, otherwise) ==
    \E started \in BOOLEAN :
        task' = IF started
                THEN [stop_audio(task) EXCEPT
                         !.playing = what, !.returncode = "running",
                         !.pc = then, !.calls = Append(@, <<"play", what>>)]
                ELSE [stop_audio(task) EXCEPT
                         !.pc = otherwise,
                         !.calls = Append(@, <<"play", what>>)]

\* Wait that reports a playback ended by stop_event as completed
Wait_StopReturnsTrue(success, failure) ==
    /\ task.playing = "none" \/ task.stop_event
    /\ task' = IF task.playing = "none"
               THEN [task EXCEPT !.pc = IF task.returncode = "zero"
                                        THEN success ELSE failure]
               ELSE [stop_audio(task) EXCEPT !.pc = success]

\* one turn of the while loop of play_audio_file and its return: the
\* process has ended, or stop_event is set and the process is terminated
Wait(success, failure) ==
    /\ task.playing = "none" \/ task.stop_event
    /\ task' = IF task.playing = "none"
               THEN [task EXCEPT !.pc = IF task.returncode = "zero"
                                        THEN success ELSE failure]
               ELSE [stop_audio(task) EXCEPT !.pc = failure]

TaskPopen ==
    /\ task.pc = "popen"
    /\ Popen("generated", "wait", "failed")
    /\ TaskFrame

TaskWait ==
    /\ task.pc = "wait"
    /\ Wait("finish", "failed")
    /\ TaskFrame

\* if not playback_success: if not self.stop_event.is_set(): default sound
TaskFailed ==
    /\ task.pc = "failed"
    /\ task' = [task EXCEPT
                   !.pc = IF task.stop_event THEN "finish" ELSE "default"]
    /\ TaskFrame

\* _play_default_sound: the file exists and stop_event is not set
TaskDefault ==
    /\ task.pc = "default"
    /\ \E exists \in BOOLEAN :
          task' = [task EXCEPT
                      !.pc = IF exists /\ ~task.stop_event
                             THEN "popen_default" ELSE "finish"]
    /\ TaskFrame

TaskPopenDefault ==
    /\ task.pc = "popen_default"
    /\ Popen("fallback", "wait_default", "finish")
    /\ TaskFrame

TaskWaitDefault ==
    /\ task.pc = "wait_default"
    /\ Wait("finish", "finish")
    /\ TaskFrame

\* self.is_active = False; the thread ends
TaskFinish ==
    /\ task.pc = "finish"
    /\ task' = [task EXCEPT !.is_active = FALSE, !.pc = "idle"]
    /\ TaskFrame

\* the mpg123 process ends by itself
AudioEnds ==
    /\ task.playing # "none"
    /\ \E code \in {"zero", "nonzero"} :
          task' = [task EXCEPT !.playing = "none", !.returncode = code]
    /\ TaskFrame

\* AlarmScheduler.stop_active_alarms / AlarmTask.stop: if self.is_active
StopCall ==
    /\ task.stopper = "idle"
    /\ task' = [task EXCEPT
                   !.stopper = IF task.is_active THEN "set" ELSE "idle",
                   !.requested = @ \/ (task.is_active /\ task.pc # "idle")]
    /\ TaskFrame

\* self.stop_event.set()
StopSet ==
    /\ task.stopper = "set"
    /\ task' = [task EXCEPT !.stop_event = TRUE, !.stopper = "audio"]
    /\ TaskFrame

\* stop_audio() of AlarmTask.stop; stop returns
StopAudio ==
    /\ task.stopper = "audio"
    /\ task' = [stop_audio(task) EXCEPT !.stopper = "idle"]
    /\ TaskFrame

\* the attributes of the AlarmScheduler that main.py passes to the
\* HardwareManager as alarm_manager
AlarmSchedulerAttributes ==
    {"alarms", "_scheduler_thread", "_stop_scheduler_event",
     "_active_alarm_tasks", "add_alarm", "remove_alarm",
     "stop_active_alarms", "run_pending", "start", "_run_scheduler_loop",
     "stop", "list_alarms"}

\* HardwareManager.handle_stop_alarm_button: alarm_manager has no
\* attribute stop_sounding_alarms, the handler logs a warning
handle_stop_alarm_button ==
    /\ task.system_enabled
    /\ "stop_sounding_alarms" \notin AlarmSchedulerAttributes
    /\ last' = [op |-> "handle_stop_alarm_button",
                sounding |-> task.playing # "none"]
    /\ UNCHANGED task
    /\ TaskFrame

TaskStep ==
    \/ TaskRun \/ TaskSetActive \/ TaskClear \/ TaskKey \/ TaskFeed
    \/ TaskTts \/ TaskCheck \/ TaskPopen \/ TaskWait \/ TaskFailed
    \/ TaskDefault \/ TaskPopenDefault \/ TaskWaitDefault \/ TaskFinish
    \/ AudioEnds \/ StopCall \/ StopSet \/ StopAudio

InitTask ==
    /\ now = StartTime
    /\ alarms = << >>
    /\ file = << >>
    /\ last_triggered_minute = << >>
    /\ actively_sounding_alarm_ids = {}
    /\ last = [op |-> "init"]
    /\ hist = [id \in AlarmIds |-> NoHist]
    /\ driver = DriverStart
    /\ spent = {}
    /\ task = TaskStart

NextTask ==
    \/ TaskStep /\ last' = [op |-> "step"]
    \/ handle_stop_alarm_button

SpecTask == InitTask /\ [][NextTask]_vars

\* the thread inside the while loop of play_audio_file wakes from
\* time.sleep(0.1) again and again
SpecPlay ==
    /\ InitTask /\ [][NextTask]_vars
    /\ WF_vars((TaskWait \/ TaskWaitDefault) /\ last' = [op |-> "step"])

----------------------------------------------------------------------------
(* audio_player.py called from two threads: two threads of AlarmTasks, or
   one of them and a request handler of the web interface.  Here `task` is
   the state of the module and of its callers: task.playback_process is
   the global _playback_process (0 for None, else the number of the mpg123
   process), task.alive the mpg123 processes that run, task.started the
   number of processes started so far, task.pc[t] the position of thread
   t inside play_audio_file and task.current_process[t] its local
   variable.  stop_audio is taken as one step. *)

\* the threads that call audio_player
Callers == {1, 2}

\* the most calls of subprocess.Popen
MaxPlays == 3

\* play_audio_file: if _playback_process and _playback_process.poll() is None
PlayCheck(t) ==
    /\ task.pc[t] = "idle" /\ task.started < MaxPlays
    /\ task' = [task EXCEPT
                   !.pc[t] = IF task.playback_process \in task.alive
                             THEN "stop" ELSE "popen"]
    /\ TaskFrame /\ UNCHANGED last

\* stop_audio(), called by play_audio_file before it starts a playback
\* (from = "stop") or by a request handler or AlarmTask.stop (from =
\* "idle"): the process of the global handle is terminated if it runs,
\* and in that case the handle is cleared
PlayStop(t, from) ==
    /\ task.pc[t] = from
    /\ task' = [task EXCEPT
                   !.pc[t] = IF from = "stop" THEN "popen" ELSE "idle",
                   !.alive = @ \ {task.playback_process},
                   !.playback_process =
                       IF task.playback_process \in task.alive THEN 0 ELSE @]
    /\ TaskFrame /\ UNCHANGED last

\* the file is missing or Popen raises: return False; else current_process
\* = subprocess.Popen(command), _playback_process = current_process, and
\* the loop follows if wait_for_completion
PlayPopen(t) ==
    /\ task.pc[t] = "popen"
    /\ \E started, wait_for_completion \in BOOLEAN :
          task' = IF started
                  THEN [task EXCEPT
                           !.started = @ + 1,
                           !.alive = @ \cup {task.started + 1},
                           !.playback_process = task.started + 1,
                           !.current_process[t] = task.started + 1,
                           !.pc[t] = IF wait_for_completion
                                     THEN "loop" ELSE "idle"]
                  ELSE [task EXCEPT !.pc[t] = "idle"]
    /\ TaskFrame /\ UNCHANGED last

\* a turn of the while loop that returns: _playback_process is None
\* (AttributeError, caught: return False), or its process has ended
\* (break; the handle is cleared if it is current_process), or stop_event
\* is set (stop_audio(); return False)
PlayLoop(t) ==
    /\ task.pc[t] = "loop"
    /\ \E stop_event \in BOOLEAN :
          /\ task.playback_process \notin task.alive \/ stop_event
          /\ task' = [task EXCEPT
                         !.pc[t] = "idle",
                         !.alive = @ \ {task.playback_process},
                         !.playback_process =
                             IF \/ @ \in task.alive
                                \/ @ = task.current_process[t]
                             THEN 0 ELSE @]
    /\ TaskFrame /\ UNCHANGED last

\* an mpg123 process reaches the end of its file
PlayerEnds ==
    /\ \E p \in task.alive : task' = [task EXCEPT !.alive = @ \ {p}]
    /\ TaskFrame /\ UNCHANGED last

InitPlayers ==
    /\ now = StartTime
    /\ alarms = << >>
    /\ file = << >>
    /\ last_triggered_minute = << >>
    /\ actively_sounding_alarm_ids = {}
    /\ last = [op |-> "init"]
    /\ hist = [id \in AlarmIds |-> NoHist]
    /\ driver = DriverStart
    /\ spent = {}
    /\ task = [pc |-> [t \in Callers |-> "idle"],
               current_process |-> [t \in Callers |-> 0],
               playback_process |-> 0, alive |-> {}, started |-> 0]

NextPlayers ==
    \/ \E t \in Callers : PlayCheck(t)
    \/ \E t \in Callers : PlayStop(t, "stop")
    \/ \E t \in Callers : PlayStop(t, "idle")
    \/ \E t \in Callers : PlayPopen(t)
    \/ \E t \in Callers : PlayLoop(t)
    \/ PlayerEnds

SpecPlayers == InitPlayers /\ [][NextPlayers]_vars

----------------------------------------------------------------------------
(* AlarmTask.run called again and again for one task.  Here `task` is the
   AlarmTask with the threads that run has started: task.threads[n] is
   "none" when thread n does not run, else its position inside
   _generate_and_play_audio. *)

\* the most threads of one task
MaxThreads == 3

\* AlarmTask.run: if not self.is_active, a new thread is started
RunCall ==
    /\ task' = IF task.is_active \/ \A n \in 1..MaxThreads :
                                      task.threads[n] # "none"
               THEN task
               ELSE LET n == CHOOSE k \in 1..MaxThreads :
                                 /\ task.threads[k] = "none"
                                 /\ \A j \in 1..(k - 1) :
                                       task.threads[j] # "none"
                    IN [task EXCEPT !.threads[n] = "begin"]
    /\ TaskFrame /\ UNCHANGED last

\* the first statement of the thread: self.is_active = True
ThreadSetActive(n) ==
    /\ task.threads[n] = "begin"
    /\ task' = [task EXCEPT !.is_active = TRUE, !.threads[n] = "clear"]
    /\ TaskFrame /\ UNCHANGED last

\* self.stop_event.clear(); then the feed, the synthesis and the playback,
\* self.is_active = False, and the thread ends
ThreadRest(n) ==
    /\ task.threads[n] \in {"clear", "body"}
    /\ task' = IF task.threads[n] = "clear"
               THEN [task EXCEPT !.stop_event = FALSE, !.threads[n] = "body"]
               ELSE [task EXCEPT !.is_active = FALSE, !.threads[n] = "none"]
    /\ TaskFrame /\ UNCHANGED last

\* AlarmTask.stop: if self.is_active: self.stop_event.set()
RunStop ==
    /\ task.is_active
    /\ task' = [task EXCEPT !.stop_event = TRUE]
    /\ TaskFrame /\ UNCHANGED last

InitRun ==
    /\ now = StartTime
    /\ alarms = << >>
    /\ file = << >>
    /\ last_triggered_minute = << >>
    /\ actively_sounding_alarm_ids = {}
    /\ last = [op |-> "init"]
    /\ hist = [id \in AlarmIds |-> NoHist]
    /\ driver = DriverStart
    /\ spent = {}
    /\ task = [is_active |-> FALSE, stop_event |-> FALSE,
               threads |-> [n \in 1..MaxThreads |-> "none"]]

NextRun ==
    \/ RunCall
    \/ \E n \in 1..MaxThreads : ThreadSetActive(n)
    \/ \E n \in 1..MaxThreads : ThreadRest(n)
    \/ RunStop

SpecRun == InitRun /\ [][NextRun]_vars

----------------------------------------------------------------------------
(* AlarmManager.__init__ on any file.  Here `file` is what open and
   json.load make of the file: [type |-> "missing"], "unreadable" (open
   raises IOError), "undecodable" (the bytes are not text in the encoding
   of open: UnicodeDecodeError), "invalid" (json.JSONDecodeError), or the
   JSON value: "number", "null", "string", "object", or "array" with its
   items; an item is [type |-> "object", members |-> the record] or
   [type |-> "number"]. *)

\* the longest array of a file
MaxItems == 3

\* records that from_dict accepts
GoodRecords ==
    [alarm_id : AlarmIds,
     alarm_time : {strftime(FixedTime)},
     label : {"wake"},
     repeat_days : {<<0, 1>>},
     enabled : {TRUE},
     is_snoozing : BOOLEAN,
     snooze_until_timestamp : {PastTs},
     feed_type : {"daily_news"},
     feed_options : {NoOptions}]

\* a record of an older version, without the feed and snooze members
OldRecord ==
    [alarm_id |-> "a", alarm_time |-> strftime(FixedTime), label |-> "wake",
     repeat_days |-> << >>, enabled |-> TRUE]

\* a record without "label", and one whose alarm_time has no such hour
BadRecords ==
    {[alarm_id |-> "a", alarm_time |-> strftime(FixedTime),
      repeat_days |-> << >>, enabled |-> TRUE],
     [alarm_id |-> "b", alarm_time |-> <<HoursPerDay, 0, 0>>,
      label |-> "tea", repeat_days |-> << >>, enabled |-> TRUE]}

LoadItems ==
    {[type |-> "object", members |-> r] :
        r \in GoodRecords \cup {OldRecord} \cup BadRecords}
    \cup {[type |-> "number"]}

LoadFiles ==
    {[type |-> t] : t \in {"missing", "unreadable", "undecodable", "invalid",
                           "number", "null", "string", "object"}}
    \cup {[type |-> "array", items |-> items] :
             items \in UNION {[1..n -> LoadItems] : n \in 0..MaxItems}}

\* datetime.datetime.strptime(s, "%H:%M:%S") raises ValueError
StrptimeRaises(s) ==
    \/ Len(s) # 3
    \/ s[1] \notin 0..(HoursPerDay - 1)
    \/ s[2] \notin 0..(MinutesPerHour - 1)
    \/ s[3] \notin 0..(SecsPerMinute - 1)

\* Alarm.from_dict raises: the item is no dict (TypeError), a key read
\* with data[...] is missing (KeyError), or the time does not parse
FromDictRaises(item) ==
    \/ item.type # "object"
    \/ ~({"alarm_time", "label", "repeat_days", "enabled", "alarm_id"}
            \subseteq DOMAIN item.members)
    \/ StrptimeRaises(item.members.alarm_time)

\* the loop of load_alarms with its inner try/except Exception
RECURSIVE LoadSkipping(_, _, _)
LoadSkipping(items, d, nowDt) ==
    IF items = << >> THEN d
    ELSE IF FromDictRaises(Head(items))
    THEN LoadSkipping(Tail(items), d, nowDt)
    ELSE LoadSkipping(Tail(items),
                      DictSet(d, from_dict(Head(items).members, nowDt)),
                      nowDt)

\* load_alarms as called by __init__: what it leaves in self.alarms and
\* whether an exception leaves it
LoadOutcome_AbortsOnBadRecord(f, nowDt) ==
    IF f.type = "array" /\ \A i \in DOMAIN f.items : ~FromDictRaises(f.items[i])
    THEN [raised |-> FALSE,
          alarms |-> LET d == LoadSkipping(f.items, << >>, nowDt)
                     IN [i \in 1..Len(d) |-> ResetPassedSnooze(d[i], nowDt)]]
    ELSE [raised |-> FALSE, alarms |-> << >>]

LoadOutcome(f, nowDt) ==
    CASE f.type \in {"missing", "unreadable", "invalid"} ->
            [raised |-> FALSE, alarms |-> << >>]
      [] f.type \in {"undecodable", "number", "null"} ->
            [raised |-> TRUE, alarms |-> << >>]
      [] f.type \in {"string", "object"} ->
            [raised |-> FALSE, alarms |-> << >>]
      [] f.type = "array" ->
            [raised |-> FALSE,
             alarms |-> LET d == LoadSkipping(f.items, << >>, nowDt)
                        IN [i \in 1..Len(d) |->
                               ResetPassedSnooze(d[i], nowDt)]]

InitLoad ==
    /\ now = StartTime
    /\ alarms = << >>
    /\ file \in LoadFiles
    /\ last_triggered_minute = << >>
    /\ actively_sounding_alarm_ids = {}
    /\ last = [op |-> "new"]
    /\ hist = [id \in AlarmIds |-> NoHist]
    /\ driver = DriverStart
    /\ spent = {}
    /\ task = TaskStart

\* AlarmManager(alarms_file)
NewManager ==
    /\ last.op = "new"
    /\ LET r == LoadOutcome(file, FromTimestamp(now))
       IN /\ alarms' = r.alarms
          /\ last' = [op |-> "load_alarms", raised |-> r.raised]
    /\ UNCHANGED <<now, file, last_triggered_minute,
                   actively_sounding_alarm_ids, hist, driver, spent, task>>

NextLoad == NewManager

SpecLoad == InitLoad /\ [][NextLoad]_vars

----------------------------------------------------------------------------
(* repeat_days through every entry: the form parsers of the two web
   front ends, create_alarm, update_alarm and the file *)

\* lists of days that a form, a caller or a file may hold: unsorted, with
\* duplicates, with a day that is no weekday
DayLists == {<< >>, <<1>>, <<1, 0, 1>>, <<DaysPerWeek>>, <<DaysPerWeek, 0>>}

\* src/src/webui.py parse_form_data_for_alarm: HTTP 400 (ok = FALSE) for
\* a day outside 0..6
parse_form_data_for_alarm(days) ==
    LET repeat_days == SortedSet({days[i] : i \in 1..Len(days)})
    IN IF \A i \in 1..Len(repeat_days) :
              0 <= repeat_days[i] /\ repeat_days[i] <= 6
       THEN [ok |-> TRUE, repeat_days |-> repeat_days]
       ELSE [ok |-> FALSE]

\* sorted(lst), duplicates kept
RECURSIVE Sorted(_)
Sorted(lst) ==
    IF lst = << >> THEN << >>
    ELSE LET k == CHOOSE i \in 1..Len(lst) :
                      \A j \in 1..Len(lst) : lst[i] <= lst[j]
         IN <<lst[k]>> \o Sorted(SubSeq(lst, 1, k - 1)
                                    \o SubSeq(lst, k + 1, Len(lst)))

\* src/wakeupai/webui.py parse_repeat_days
parse_repeat_days(days) == Sorted(days)

\* route_post_new_alarm and route_post_edit_alarm of src/src/webui.py
RouteNewAlarm(id, days) ==
    LET p == parse_form_data_for_alarm(days)
    IN IF p.ok THEN create_alarm(id, FixedTime, p.repeat_days, TRUE)
       ELSE UNCHANGED <<now, alarms, last_triggered_minute,
                        actively_sounding_alarm_ids, file, hist>>

RouteEditAlarm(id, days) ==
    LET p == parse_form_data_for_alarm(days)
    IN IF p.ok /\ id \in Keys(alarms)
       THEN update_alarm(id, <<FixedTime>>, <<p.repeat_days>>, <<TRUE>>)
       ELSE UNCHANGED <<now, alarms, last_triggered_minute,
                        actively_sounding_alarm_ids, file, hist>>

\* add_alarm and edit_alarm of src/wakeupai/webui.py
add_alarm(id, days) ==
    create_alarm(id, FixedTime, parse_repeat_days(days), TRUE)

edit_alarm(id, days) ==
    IF id \in Keys(alarms)
    THEN update_alarm(id, <<FixedTime>>, <<parse_repeat_days(days)>>,
                      <<TRUE>>)
    ELSE UNCHANGED <<now, alarms, last_triggered_minute,
                     actively_sounding_alarm_ids, file, hist>>

\* the file that an earlier run or an editor has left
RepeatFiles ==
    {<< >>} \cup
    {<<[r EXCEPT !.repeat_days = days]>> :
        r \in {to_dict(NewAlarm(FixedTime, "wake", << >>, TRUE, "a",
                                "daily_news", << >>))},
        days \in DayLists}

InitRepeat ==
    /\ now = StartTime
    /\ file \in RepeatFiles
    /\ alarms = load_alarms(file, FromTimestamp(now))
    /\ last_triggered_minute = << >>
    /\ actively_sounding_alarm_ids = {}
    /\ last = [op |-> "init"]
    /\ hist = [id \in AlarmIds |-> NoHist]
    /\ driver = DriverStart
    /\ spent = {}
    /\ task = TaskStart

NextRepeat ==
    \/ Quiet /\ \E id \in AlarmIds, days \in DayLists :
                    RouteNewAlarm(id, days)
    \/ Quiet /\ \E id \in AlarmIds, days \in DayLists :
                    RouteEditAlarm(id, days)
    \/ Quiet /\ \E id \in AlarmIds, days \in DayLists : add_alarm(id, days)
    \/ Quiet /\ \E id \in AlarmIds, days \in DayLists : edit_alarm(id, days)
    \/ Quiet /\ \E id \in AlarmIds, days \in DayLists :
                    create_alarm(id, FixedTime, days, TRUE)
    \/ Quiet /\ \E id \in AlarmIds, days \in DayLists :
                    update_alarm(id, << >>, <<days>>, << >>)
    \/ Quiet /\ \E id \in AlarmIds : remove_alarm(id)
    \/ Restart /\ UNCHANGED <<driver, spent, task>>

SpecRepeat == InitRepeat /\ [][NextRepeat]_vars

----------------------------------------------------------------------------
(* create_alarm without alarm_id: the id is str(time.time()).  Here `now`
   is the value that time.time() returns, counted in steps of the clock;
   the clock may or may not have moved between two calls. *)

\* the calls of create_alarm that are followed
MaxCreates == 3

\* str(time.time())
str_time(t) == ToString(t)

\* the clock moves to its next value
ClockAdvances ==
    /\ now < LastSecond
    /\ now' = now + 1
    /\ UNCHANGED <<alarms, last_triggered_minute,
                   actively_sounding_alarm_ids, file, last, hist, driver,
                   spent, task>>

\* create_alarm(alarm_time, label) with alarm_id = None; last keeps the
\* number of such calls and the id of the alarm returned (<< >> for None)
create_alarm_auto(alarm_time, label) ==
    LET alarm == NewAlarm(alarm_time, label, << >>, TRUE, str_time(now),
                          "daily_news", << >>)
    IN /\ last.creates < MaxCreates
       /\ IF alarm.alarm_id \in Keys(alarms)
          THEN /\ UNCHANGED <<alarms, file>>
               /\ last' = [op |-> "create_alarm",
                           creates |-> last.creates + 1, ret |-> << >>]
          ELSE /\ alarms' = DictSet(alarms, alarm)
               /\ file' = SavedData(alarms')
               /\ last' = [op |-> "create_alarm",
                           creates |-> last.creates + 1,
                           ret |-> <<alarm.alarm_id>>]
       /\ UNCHANGED <<now, last_triggered_minute,
                      actively_sounding_alarm_ids, hist, driver, spent, task>>

InitAutoId ==
    /\ now = StartTime
    /\ alarms = << >>
    /\ file = << >>
    /\ last_triggered_minute = << >>
    /\ actively_sounding_alarm_ids = {}
    /\ last = [op |-> "init", creates |-> 0, ret |-> << >>]
    /\ hist = [id \in AlarmIds |-> NoHist]
    /\ driver = DriverStart
    /\ spent = {}
    /\ task = TaskStart

NextAutoId ==
    \/ ClockAdvances
    \/ \E t \in AlarmTimes, l \in {"wake", "tea"} : create_alarm_auto(t, l)

SpecAutoId == InitAutoId /\ [][NextAutoId]_vars

----------------------------------------------------------------------------
(* One-time alarms over the days.  spent holds the ids of the one-time
   alarms that a scan returned at their alarm time (not at the end of a
   snooze) and that were neither snoozed nor re-armed (enable_alarm,
   update_alarm with enabled = True) since. *)

\* the ids of result whose alarm in d is a one-time alarm that is not
\* snoozed
OneTimeIds(d, result) ==
    {id \in Keys(d) : /\ InList(id, result)
                      /\ AlarmOf(d, id).repeat_days = << >>
                      /\ ~AlarmOf(d, id).is_snoozing}

\* check_and_trigger_alarms; last keeps the ids that were spent before it
ScanSpent ==
    LET st == check_and_trigger_alarms(alarms, last_triggered_minute,
                                       actively_sounding_alarm_ids,
                                       FromTimestamp(now))
    IN /\ alarms' = st.alarms
       /\ last_triggered_minute' = st.cache
       /\ actively_sounding_alarm_ids' = st.active
       /\ last' = [op |-> "scan", result |-> st.result, trig |-> st.trig,
                   spent |-> spent]
       /\ hist' = HistAfterScan(hist, st.result, FromTimestamp(now))
       /\ spent' = spent \cup OneTimeIds(alarms, st.result)
       /\ UNCHANGED <<now, file, driver, task>>

\* the rest of the day and the night pass without a call: the clock is at
\* StartTime of the following day
Night ==
    /\ now \div TicksPerDay < MaxDays - 1
    /\ now' = (now \div TicksPerDay + 1) * TicksPerDay + StartTime
    /\ last' = [op |-> "other"]
    /\ hist' = HistAfterTime(hist, now, now')
    /\ UNCHANGED <<alarms, last_triggered_minute,
                   actively_sounding_alarm_ids, file, driver, spent, task>>

\* a call that re-arms or snoozes the alarm id
Rearming(id) ==
    /\ last' = [op |-> "other"]
    /\ spent' = spent \ {id}
    /\ UNCHANGED <<driver, task>>

NextOneTime ==
    \/ Tick
    \/ NextDay
    \/ Night
    \/ ScanSpent
    \/ \E id \in AlarmIds : Rearming(id) /\ enable_alarm(id)
    \/ \E id \in AlarmIds :
          Rearming(id) /\ update_alarm(id, << >>, << >>, <<TRUE>>)
    \/ \E id \in AlarmIds, m \in SnoozeMinutes :
          Rearming(id) /\ snooze_alarm(id, m)
    \/ Quiet /\ \E id \in AlarmIds : disable_alarm(id)
    \/ Quiet /\ \E id \in AlarmIds : mark_alarm_processing_complete(id)

SpecOneTime == Init /\ [][NextOneTime]_vars

----------------------------------------------------------------------------
(* update_alarm with every argument, and enable_alarm, on one stored alarm;
   last keeps the arguments of the call and the alarm as it was *)

\* the alarm stored when the call is made
UpdateAlarms ==
    {[NewAlarm(t, "wake", r, e, "a", "daily_news", << >>) EXCEPT
         !.is_snoozing = s,
         !.snooze_until_timestamp = IF s THEN FutureTs ELSE None] :
        t \in AlarmTimes, r \in {<< >>, <<0, 1>>}, e \in BOOLEAN,
        s \in BOOLEAN}

\* the arguments offered: << >> is an argument left at None
UpdateLabels == {<< >>, <<"tea">>}
UpdateFeedTypes == {<< >>, <<"topic_facts">>}
UpdateFeedOptions == {<< >>, <<NoOptions>>, << {<<"topic", "cats">>} >>}

InitUpdate ==
    /\ now = StartTime
    /\ alarms \in {<<a>> : a \in UpdateAlarms}
    /\ file = SavedData(alarms)
    /\ last_triggered_minute = << >>
    /\ actively_sounding_alarm_ids = {}
    /\ last = [op |-> "init"]
    /\ hist = [id \in AlarmIds |-> NoHist]
    /\ driver = DriverStart
    /\ spent = {}
    /\ task = TaskStart

\* AlarmManager.update_alarm("a", ...)
UpdateCall ==
    /\ last.op = "init"
    /\ \E t \in UpdateTimes, l \in UpdateLabels, r \in UpdateRepeats,
          e \in UpdateEnabled, ft \in UpdateFeedTypes,
          fo \in UpdateFeedOptions :
          /\ alarms' = DictSet(alarms, AlarmUpdate(AlarmOf(alarms, "a"),
                                                   t, l, r, e, ft, fo))
          /\ last' = [op |-> "update_alarm", before |-> AlarmOf(alarms, "a"),
                      alarm_time |-> t, label |-> l, repeat_days |-> r,
                      enabled |-> e, feed_type |-> ft, feed_options |-> fo]
    /\ file' = SavedData(alarms')
    /\ UNCHANGED <<now, last_triggered_minute, actively_sounding_alarm_ids,
                   hist, driver, spent, task>>

\* AlarmManager.enable_alarm("a")
EnableCall ==
    /\ last.op = "init"
    /\ enable_alarm("a")
    /\ last' = [op |-> "enable_alarm", before |-> AlarmOf(alarms, "a")]
    /\ UNCHANGED <<driver, spent, task>>

NextUpdate == UpdateCall \/ EnableCall

SpecUpdate == InitUpdate /\ [][NextUpdate]_vars

----------------------------------------------------------------------------
(* The processing of one triggered alarm, in each of the two programs:
   process_single_triggered_alarm of alarm_handler.py (last.program =
   "webui"), whose position and calls are kept in `driver`, and the thread
   of AlarmTask._generate_and_play_audio (last.program = "main"). *)

\* the alarm handed to process_single_triggered_alarm
ProcessedAlarm ==
    NewAlarm(FixedTime, "wake", << >>, TRUE, "a", "daily_news", << >>)

\* the call of process_single_triggered_alarm(alarm) begins
HandlerStart == [pc |-> "start", alarm |-> ProcessedAlarm, calls |-> << >>]

HandlerFrame ==
    UNCHANGED <<now, alarms, last_triggered_minute,
                actively_sounding_alarm_ids, file, last, hist, spent, task>>

\* if not system_is_enabled: return
HandlerEnabled ==
    /\ last.program = "webui" /\ driver.pc = "start"
    /\ \E system_is_enabled \in BOOLEAN :
          driver' = [driver EXCEPT
                        !.pc = IF system_is_enabled THEN "key" ELSE "done"]
    /\ HandlerFrame

\* if not OPENAI_API_KEY: default sound, return
HandlerKey ==
    /\ last.program = "webui" /\ driver.pc = "key"
    /\ \E key \in BOOLEAN :
          driver' = [driver EXCEPT !.pc = IF key THEN "feed" ELSE "default"]
    /\ HandlerFrame

\* HandlerFeed that goes on to the synthesis without a text
HandlerFeed_IgnoresFailure ==
    /\ last.program = "webui" /\ driver.pc = "feed"
    /\ \E feed_text \in BOOLEAN :
          driver' = [driver EXCEPT
                        !.pc = "tts",
                        !.calls = Append(@, <<"feed", feed_text>>)]
    /\ HandlerFrame

\* feed_text = generate_feed_content(...); if not feed_text: default sound
HandlerFeed ==
    /\ last.program = "webui" /\ driver.pc = "feed"
    /\ \E feed_text \in BOOLEAN :
          driver' = [driver EXCEPT
                        !.pc = IF feed_text THEN "tts" ELSE "default",
                        !.calls = Append(@, <<"feed", feed_text>>)]
    /\ HandlerFrame

\* tts_success = text_to_speech_openai(...); if not: default sound
HandlerTts ==
    /\ last.program = "webui" /\ driver.pc = "tts"
    /\ \E tts_success \in BOOLEAN :
          driver' = [driver EXCEPT
                        !.pc = IF tts_success THEN "play" ELSE "default",
                        !.calls = Append(@, <<"tts", tts_success>>)]
    /\ HandlerFrame

\* play_audio_file(temp_audio_filepath, wait_for_completion=True)
HandlerPlay ==
    /\ last.program = "webui" /\ driver.pc = "play"
    /\ driver' = [driver EXCEPT
                     !.pc = "done",
                     !.calls = Append(@, <<"play", "generated">>)]
    /\ HandlerFrame

\* play_audio_file("src/audio_files/default_alarm_sound.mp3"); return
HandlerDefault ==
    /\ last.program = "webui" /\ driver.pc = "default"
    /\ driver' = [driver EXCEPT
                     !.pc = "done",
                     !.calls = Append(@, <<"play", "fallback">>)]
    /\ HandlerFrame

InitProcess ==
    /\ now = StartTime
    /\ alarms = <<ProcessedAlarm>>
    /\ file = SavedData(alarms)
    /\ last_triggered_minute = << >>
    /\ actively_sounding_alarm_ids = {"a"}
    /\ last \in {[op |-> "init", program |-> p] : p \in {"webui", "main"}}
    /\ hist = [id \in AlarmIds |-> NoHist]
    /\ driver = HandlerStart
    /\ spent = {}
    /\ task = TaskStart

NextProcess ==
    \/ HandlerEnabled \/ HandlerKey \/ HandlerFeed \/ HandlerTts
    \/ HandlerPlay \/ HandlerDefault
    \/ last.program = "main" /\ TaskStep /\ UNCHANGED last

SpecProcess == InitProcess /\ [][NextProcess]_vars

----------------------------------------------------------------------------
(* A scan in which the evaluation of an alarm raises: the print of
   check_and_trigger_alarms writes the label of the alarm to sys.stdout,
   and raises UnicodeEncodeError for a label that the encoding of the
   stream cannot encode *)

\* labels of the alarms scanned; the second one holds a character outside
\* the encoding of sys.stdout
ScanErrorLabels == {"wake", "caf(U+00E9)"}

\* str.encode with the encoding of sys.stdout succeeds
StdoutEncodes(label) == label # "caf(U+00E9)"

\* the iteration of check_and_trigger_alarms on the alarm at position i
\* reaches the print and the print raises
PrintRaises(st, i, nowDt) ==
    LET r == should_trigger(st.alarms[i], nowDt)
    IN /\ r.ret
       /\ ~(/\ ~r.alarm.is_snoozing
            /\ CacheGet(st.cache, r.alarm.alarm_id)
                   = <<nowDt.hour, nowDt.minute>>)
       /\ ~StdoutEncodes(r.alarm.label)

\* the loop of check_and_trigger_alarms from position i on, left at the
\* first exception: should_trigger has changed the alarm, nothing else
RECURSIVE ScanUntilError(_, _, _)
ScanUntilError(st, i, nowDt) ==
    IF i > Len(st.alarms) THEN [st |-> st, raised |-> FALSE]
    ELSE IF PrintRaises(st, i, nowDt)
    THEN [st |-> [st EXCEPT !.alarms[i] =
                                should_trigger(st.alarms[i], nowDt).alarm],
          raised |-> TRUE]
    ELSE ScanUntilError(ScanOne(st, i, nowDt), i + 1, nowDt)

\* the alarms of the manager when the scan is made
ScanErrorAlarms(id) ==
    {NewAlarm(t, l, r, e, id, "daily_news", << >>) :
        t \in AlarmTimes, l \in ScanErrorLabels, r \in {<< >>, <<0, 1>>},
        e \in BOOLEAN}

InitScanError ==
    /\ now = StartTime
    /\ alarms \in {<<a, b>> : a \in ScanErrorAlarms("a"),
                              b \in ScanErrorAlarms("b")}
    /\ file = SavedData(alarms)
    /\ last_triggered_minute = << >>
    /\ actively_sounding_alarm_ids = {}
    /\ last = [op |-> "init"]
    /\ hist = [id \in AlarmIds |-> NoHist]
    /\ driver = DriverStart
    /\ spent = {}
    /\ task = TaskStart

\* triggered_alarms = alarm_manager.check_and_trigger_alarms() inside the
\* try of alarm_checking_loop: on an exception nothing is returned
ScanWithErrors ==
    /\ last.op = "init"
    /\ LET e == ScanUntilError([alarms |-> alarms,
                                cache |-> last_triggered_minute,
                                active |-> actively_sounding_alarm_ids,
                                result |-> << >>, trig |-> {}],
                               1, FromTimestamp(now))
       IN /\ alarms' = e.st.alarms
          /\ last_triggered_minute' = e.st.cache
          /\ actively_sounding_alarm_ids' = e.st.active
          /\ last' = [op |-> "check_and_trigger_alarms",
                      raised |-> e.raised,
                      result |-> IF e.raised THEN << >> ELSE e.st.result,
                      before |-> alarms]
    /\ UNCHANGED <<now, file, hist, driver, spent, task>>

NextScanError == ScanWithErrors

SpecScanError == InitScanError /\ [][NextScanError]_vars

----------------------------------------------------------------------------
(* Serialization: from_dict applied to to_dict of one alarm *)

\* times of day with seconds and microseconds
RoundTripTimes ==
    {Time(0, 1),
     [hour |-> 1, minute |-> 0, second |-> 1, microsecond |-> 0],
     [hour |-> 0, minute |-> 1, second |-> 1, microsecond |-> 1]}
RoundTripLabels == {"wake", ""}
RoundTripFeedTypes == {"daily_news", "topic_facts"}
RoundTripFeedOptions == {<< >>, <<{<<"topic", "Space">>}>>}
\* snooze deadlines: none, passed, reached now, still ahead
RoundTripDeadlines == {None, PastTs, StartTime, FutureTs}

\* the alarms that are serialized
RoundTripAlarms ==
    {[NewAlarm(t, l, r, e, "a", ft, fo) EXCEPT
          !.is_snoozing = s, !.snooze_until_timestamp = ts] :
        t \in RoundTripTimes, l \in RoundTripLabels, r \in RepeatInputs,
        e \in BOOLEAN, ft \in RoundTripFeedTypes,
        fo \in RoundTripFeedOptions, s \in BOOLEAN,
        ts \in RoundTripDeadlines}

InitRoundTrip ==
    /\ now = StartTime
    /\ alarms \in {<<a>> : a \in RoundTripAlarms}
    /\ file = << >>
    /\ last_triggered_minute = << >>
    /\ actively_sounding_alarm_ids = {}
    /\ last = [op |-> "init"]
    /\ hist = [id \in AlarmIds |-> NoHist]
    /\ driver = DriverStart
    /\ spent = {}
    /\ task = TaskStart

\* Alarm.from_dict(alarm.to_dict())
RoundTrip ==
    /\ last.op = "init"
    /\ alarms' = <<from_dict(to_dict(alarms[1]), FromTimestamp(now))>>
    /\ last' = [op |-> "from_dict", before |-> alarms[1]]
    /\ UNCHANGED <<now, file, last_triggered_minute,
                   actively_sounding_alarm_ids, hist, driver, spent, task>>

NextRoundTrip == RoundTrip

SpecRoundTrip == InitRoundTrip /\ [][NextRoundTrip]_vars

----------------------------------------------------------------------------
(* Properties *)

\* the <<hour, minute>> of a timestamp
Key(ts) == <<FromTimestamp(ts).hour, FromTimestamp(ts).minute>>

\* the minute of ts matches the alarm's time of day and repeat days
Qualifies(alarm, ts) ==
    /\ FromTimestamp(ts).hour = alarm.alarm_time.hour
    /\ FromTimestamp(ts).minute = alarm.alarm_time.minute
    /\ \/ alarm.repeat_days = << >>
       \/ \E k \in 1..Len(alarm.repeat_days) :
             alarm.repeat_days[k] = (ts \div TicksPerDay) % DaysPerWeek

\* the alarm's snooze deadline is set and has been reached at ts
SnoozeExpired(alarm, ts) ==
    /\ alarm.enabled
    /\ alarm.is_snoozing
    /\ alarm.snooze_until_timestamp # None
    /\ ts >= alarm.snooze_until_timestamp

\* the alarm's snooze deadline is set and lies after ts
SnoozePending(alarm, ts) ==
    /\ alarm.is_snoozing
    /\ alarm.snooze_until_timestamp # None
    /\ ts < alarm.snooze_until_timestamp

\* C1: after a scan, every one-time alarm it returned that is not snoozing
\* is disabled, and every repeating alarm it returned is enabled.
C1_OneTimeDisabledAfterTrigger ==
    last.op = "scan" =>
        \A i \in 1..Len(alarms) :
            InList(alarms[i].alarm_id, last.result) =>
                IF alarms[i].repeat_days = << >>
                THEN ~alarms[i].is_snoozing => ~alarms[i].enabled
                ELSE alarms[i].enabled

\* C2: in a sequence of scans made in the same (hour, minute), with no
\* snooze, removal or creation of the alarm in between, a scan does not
\* return an alarm that an earlier scan of the sequence returned.
C2_AtMostOncePerMinuteKey ==
    [][last'.op = "scan" =>
          \A id \in AlarmIds :
              InList(id, last'.result) => hist[id].key # Key(now)]_vars

\* C2 witness: a second scan in the same (hour, minute) found the alarm due
\* and did not return it again.
C2_Witness ==
    /\ last.op = "scan"
    /\ \E id \in AlarmIds :
          /\ id \in last.trig
          /\ ~InList(id, last.result)
          /\ hist[id].key = Key(now)

\* C3: a scan made in a qualifying minute of an enabled alarm that is not
\* snoozing returns the alarm iff no earlier scan of that minute returned it
\* (the alarm fires exactly once in each qualifying minute, on every day).
C3_ExactlyOncePerQualifyingMinute ==
    [][last'.op = "scan" =>
          \A i \in 1..Len(alarms) :
              (/\ alarms[i].enabled
               /\ ~alarms[i].is_snoozing
               /\ Qualifies(alarms[i], now))
              => (InList(alarms[i].alarm_id, last'.result)
                      <=> ~hist[alarms[i].alarm_id].fired)]_vars

\* C4: a scan made at or after the snooze deadline of an enabled snoozing
\* alarm returns the alarm and leaves it not snoozing, with no deadline.
C4_SnoozeExpiryTriggers ==
    [][last'.op = "scan" =>
          \A i \in 1..Len(alarms) :
              SnoozeExpired(alarms[i], now) =>
                  /\ InList(alarms[i].alarm_id, last'.result)
                  /\ ~alarms'[i].is_snoozing
                  /\ alarms'[i].snooze_until_timestamp = None]_vars

\* C5: a snooze that has expired is returned by the scan also when the
\* last-triggered cache entry of the alarm equals the current (hour, minute).
C5_DedupNeverSuppressesSnoozeExpiry ==
    [][last'.op = "scan" =>
          \A i \in 1..Len(alarms) :
              (/\ SnoozeExpired(alarms[i], now)
               /\ CacheGet(last_triggered_minute, alarms[i].alarm_id)
                      = Key(now))
              => InList(alarms[i].alarm_id, last'.result)]_vars

\* C6: a scan made before the snooze deadline of a snoozing alarm finds
\* should_trigger false for it, does not return it and leaves its snooze
\* state as it was, also in a minute that matches the alarm's own time.
C6_SnoozingNotTriggered ==
    [][last'.op = "scan" =>
          \A i \in 1..Len(alarms) :
              SnoozePending(alarms[i], now) =>
                  /\ alarms[i].alarm_id \notin last'.trig
                  /\ ~InList(alarms[i].alarm_id, last'.result)
                  /\ alarms'[i].is_snoozing
                  /\ alarms'[i].snooze_until_timestamp
                         = alarms[i].snooze_until_timestamp]_vars

\* C6 witness: a scan was made in the alarm's own minute while the alarm
\* was snoozing with a deadline still ahead, and did not trigger it.
C6_Witness ==
    /\ last.op = "scan"
    /\ \E i \in 1..Len(alarms) :
          /\ alarms[i].enabled
          /\ SnoozePending(alarms[i], now)
          /\ Qualifies(alarms[i], now)
          /\ alarms[i].alarm_id \notin last.trig

\* C7: for an enabled alarm that is not snoozing, should_trigger is true
\* iff the hour and the minute of the clock equal the alarm's and the
\* weekday is in repeat_days or repeat_days is empty, at every second of
\* the minute, and should_trigger leaves the alarm as it was.
C7_ShouldTriggerMatchesClock ==
    [][last'.op = "scan" =>
          \A i \in 1..Len(alarms) :
              (alarms[i].enabled /\ ~alarms[i].is_snoozing) =>
                  /\ alarms[i].alarm_id \in last'.trig
                         <=> Qualifies(alarms[i], now)
                  /\ should_trigger(alarms[i], FromTimestamp(now)).alarm
                         = alarms[i]]_vars

\* C7 witness: a repeating alarm was found due by a scan made after second
\* 0 of its minute.
C7_Witness ==
    /\ last.op = "scan"
    /\ FromTimestamp(now).second > 0
    /\ \E i \in 1..Len(alarms) :
          /\ alarms[i].enabled
          /\ Len(alarms[i].repeat_days) > 0
          /\ Qualifies(alarms[i], now)
          /\ alarms[i].alarm_id \in last.trig

\* C8: a scan does not return a disabled alarm, does not add it to the
\* actively sounding set and leaves all its fields unchanged.
C8_DisabledNeverTriggered ==
    [][last'.op = "scan" =>
          \A i \in 1..Len(alarms) :
              ~alarms[i].enabled =>
                  /\ ~InList(alarms[i].alarm_id, last'.result)
                  /\ alarms[i].alarm_id \in actively_sounding_alarm_ids'
                         => alarms[i].alarm_id \in actively_sounding_alarm_ids
                  /\ alarms'[i] = alarms[i]]_vars

\* C8 witness: a scan was made in the minute of a disabled alarm and did
\* not return it.
C8_Witness ==
    /\ last.op = "scan"
    /\ \E i \in 1..Len(alarms) :
          /\ ~alarms[i].enabled
          /\ Qualifies(alarms[i], now)
          /\ ~InList(alarms[i].alarm_id, last.result)

\* C9: a disabled alarm is never snoozing and has no snooze deadline.
C9_DisabledNeverSnoozing ==
    \A i \in 1..Len(alarms) :
        ~alarms[i].enabled =>
            /\ ~alarms[i].is_snoozing
            /\ alarms[i].snooze_until_timestamp = None

\* the record of the file that the alarm id was loaded from
StoredRecord(id) ==
    file[CHOOSE j \in 1..Len(file) :
             /\ file[j].alarm_id = id
             /\ \A k \in (j + 1)..Len(file) : file[k].alarm_id # id]

\* C10: an alarm is snoozing iff its snooze deadline is set; directly after
\* a load it is snoozing iff the stored deadline is set and in the future.
C10_SnoozingIffDeadline ==
    /\ \A i \in 1..Len(alarms) :
          alarms[i].is_snoozing <=> alarms[i].snooze_until_timestamp # None
    /\ last.op = "init" =>
          \A i \in 1..Len(alarms) :
              alarms[i].is_snoozing <=>
                  LET ts == StoredRecord(alarms[i].alarm_id)
                                .snooze_until_timestamp
                  IN ts # None /\ ts >= now

C13_FileHoldsSerialization ==
    [][(alarms' # alarms /\ last'.op # "init")
           => file' = SavedData(alarms')]_vars

\* C14: snooze_alarm on a disabled alarm changes no alarm and not the
\* file, and the alarm is disabled, not snoozing and without deadline.
C14_SnoozeDisabledChangesNothing ==
    [][(/\ last'.op = "snooze_alarm"
        /\ last'.id \in Keys(alarms)
        /\ ~AlarmOf(alarms, last'.id).enabled)
       => /\ alarms' = alarms
          /\ file' = file
          /\ AlarmSnooze(AlarmOf(alarms, last'.id), RequestMinutes,
                         FromTimestamp(now)) = AlarmOf(alarms, last'.id)
          /\ ~AlarmOf(alarms', last'.id).enabled
          /\ ~AlarmOf(alarms', last'.id).is_snoozing
          /\ AlarmOf(alarms', last'.id).snooze_until_timestamp = None]_vars

\* C15: create_alarm with an id that is present returns None and leaves the
\* alarms, the active set, the last-triggered cache and the file unchanged.
C15_DuplicateCreateChangesNothing ==
    [][(last'.op = "create_alarm" /\ last'.id \in Keys(alarms))
       => /\ last'.ret = << >>
          /\ UNCHANGED <<alarms, actively_sounding_alarm_ids,
                         last_triggered_minute, file>>]_vars

\* C15 witness: create_alarm was called with the id of a sounding alarm and
\* returned None.
C15_Witness ==
    /\ last.op = "create_alarm"
    /\ last.ret = << >>
    /\ last.id \in actively_sounding_alarm_ids
    /\ last.id \in DOMAIN last_triggered_minute

\* C16: remove, update, enable, disable and snooze with an id that is not
\* present leave the alarms, the active set, the last-triggered cache and
\* the file unchanged; update_alarm and get_alarm return None.
C16_UnknownIdChangesNothing ==
    [][(/\ last'.op \in {"remove_alarm", "update_alarm", "enable_alarm",
                         "disable_alarm", "snooze_alarm"}
        /\ last'.id \notin Keys(alarms))
       => /\ UNCHANGED <<alarms, actively_sounding_alarm_ids,
                         last_triggered_minute, file>>
          /\ last'.op = "update_alarm" => last'.ret = << >>
          /\ get_alarm(alarms', last'.id) = << >>]_vars

\* C16 witness: update_alarm was called with an id that is not present,
\* while another alarm was stored and sounding, and returned None.
C16_Witness ==
    /\ last.op = "update_alarm"
    /\ last.id \notin Keys(alarms)
    /\ last.ret = << >>
    /\ alarms # << >>
    /\ actively_sounding_alarm_ids # {}

\* the ids of the active set that resolve to an enabled alarm
ActiveEnabled ==
    {id \in actively_sounding_alarm_ids :
        id \in Keys(alarms) /\ AlarmOf(alarms, id).enabled}

\* C17: request_snooze_for_active_alarms(m) returns the labels of the ids
\* of the active set that resolve to an enabled alarm, leaves exactly those
\* alarms snoozing until now + m, every other alarm as it was, and the
\* active set without the ids that resolve to no alarm; with an empty
\* active set it returns [] and changes nothing.
C17_RequestSnoozesActiveEnabled ==
    [][last'.op = "request_snooze_for_active_alarms" =>
          /\ \E o \in Orders(ActiveEnabled) :
                last'.ret = [i \in 1..Len(o) |-> AlarmOf(alarms, o[i]).label]
          /\ Len(alarms') = Len(alarms)
          /\ \A i \in 1..Len(alarms) :
                alarms'[i] =
                    IF alarms[i].alarm_id \in ActiveEnabled
                    THEN [alarms[i] EXCEPT
                              !.is_snoozing = TRUE,
                              !.snooze_until_timestamp =
                                  now + last'.minutes * SecsPerMinute]
                    ELSE alarms[i]
          /\ actively_sounding_alarm_ids' =
                 actively_sounding_alarm_ids \cap Keys(alarms)
          /\ UNCHANGED last_triggered_minute
          /\ actively_sounding_alarm_ids = {} =>
                 /\ last'.ret = << >>
                 /\ UNCHANGED <<alarms, file,
                                actively_sounding_alarm_ids>>]_vars

\* C17 witness: a request snoozed a sounding alarm and returned its label
\* while a disabled alarm of the active set was left as it was.
C17_Witness ==
    /\ last.op = "request_snooze_for_active_alarms"
    /\ last.ret # << >>
    /\ \E id \in actively_sounding_alarm_ids :
          /\ id \in Keys(alarms)
          /\ ~AlarmOf(alarms, id).enabled
          /\ ~AlarmOf(alarms, id).is_snoozing

\* C18: every id of the active set is a key of the alarms.
C18_ActiveIdsExist == actively_sounding_alarm_ids \subseteq Keys(alarms)

C20_SoundingEventuallyComplete ==
    \A id \in AlarmIds :
        (id \in actively_sounding_alarm_ids)
            ~> (id \notin actively_sounding_alarm_ids
                \/ driver.shutdown_event)

\* what the for loop of the driver does with the list a scan returned, when
\* it runs to its end: each alarm is processed and then marked complete
ProcessLog(returned) ==
    [i \in 1..(2 * Len(returned)) |->
        IF i % 2 = 1 THEN <<"process", returned[(i + 1) \div 2]>>
        ELSE <<"mark", returned[i \div 2]>>]

IsPrefix(s, t) == Len(s) <= Len(t) /\ s = SubSeq(t, 1, Len(s))

\* C21: the driver processes the alarms of one scan in the order returned,
\* marks each complete before it starts the next, and has processed and
\* marked all of them when its next scan runs.
C21_SequentialInOrder ==
    /\ IsPrefix(driver.log, ProcessLog(driver.returned))
    /\ driver.pc = "scan" => driver.log = ProcessLog(driver.returned)

\* C21 witness: a scan returned two alarms, both were processed and marked,
\* and the next scan is running.
C21_Witness ==
    /\ driver.pc = "scan"
    /\ Len(driver.returned) = 2
    /\ driver.log = ProcessLog(driver.returned)

\* C23: while check_and_trigger_alarms runs on the thread of the driver, no
\* other thread changes the manager: every step taken during a scan that
\* is not a step of the scan leaves the alarms, the cache and the active
\* set as they are; and a scan ends by returning its list, never by an
\* error that drops the alarms it added to the active set.
C23_ScanAtomic ==
    [][driver.pc = "scan" =>
          /\ driver' = driver =>
                UNCHANGED <<alarms, last_triggered_minute,
                            actively_sounding_alarm_ids>>
          /\ driver'.pc \in {"scan", "for"}]_vars

\* the elements of a list
Range(s) == {s[i] : i \in 1..Len(s)}

\* C25: when the evaluation of one alarm raises inside a scan, the scan
\* still returns every other alarm that is due, and no id is in the active
\* set without having been returned.
C25_ScanIsolatesFailures ==
    last.op = "check_and_trigger_alarms" =>
        /\ \A i \in 1..Len(last.before) :
              (/\ should_trigger(last.before[i], FromTimestamp(now)).ret
               /\ StdoutEncodes(last.before[i].label))
                  => last.before[i].alarm_id \in Range(last.result)
        /\ actively_sounding_alarm_ids \subseteq Range(last.result)

\* C22: once a stop requested during the processing of an alarm has
\* returned, no audio of the task, generated or fallback, is playing.
C22_StopSilences ==
    (task.requested /\ task.stopper = "idle") => task.playing = "none"

\* C24: a press of the stop button while the alarm is sounding sets the
\* stop signal of the task and terminates the audio process.
C24_StopButtonStops ==
    (last.op = "handle_stop_alarm_button" /\ last.sounding)
        => (task.stop_event /\ task.playing = "none")

\* from_dict accepts the item of a file
Parses(item) == ~FromDictRaises(item)

\* the records of the items
Members(items) == [i \in 1..Len(items) |-> items[i].members]

\* C26: loading an array that mixes well-formed and malformed records
\* does not raise and yields exactly what loading the well-formed records
\* alone, in their order, yields.
C26_MalformedRecordsSkipped ==
    (last.op = "load_alarms" /\ file.type = "array") =>
        /\ ~last.raised
        /\ alarms = load_alarms(Members(SelectSeq(file.items, Parses)),
                                FromTimestamp(now))

\* a loaded file with a malformed record between two well-formed ones
C26_Witness ==
    /\ last.op = "load_alarms"
    /\ file.type = "array"
    /\ Len(file.items) = 3
    /\ Parses(file.items[1]) /\ ~Parses(file.items[2])
    /\ Parses(file.items[3])
    /\ Len(alarms) = 2

\* C27: constructing a manager on a file that is missing, unreadable or
\* not an array of records raises nothing and leaves no alarms.
C27_LoadFailsOpen ==
    (last.op = "load_alarms" /\ file.type # "array") =>
        (~last.raised /\ alarms = << >>)

\* C28: the repeat_days of every alarm are strictly ascending, without
\* duplicates, and hold only the weekdays 0..6, whether they were set by
\* create, by update or by load.
C28_RepeatDaysNormalised ==
    \A i \in 1..Len(alarms) :
        LET days == alarms[i].repeat_days
        IN /\ \A j \in 1..Len(days) : days[j] \in 0..6
           /\ \A j \in 1..(Len(days) - 1) : days[j] < days[j + 1]

\* C29: every create_alarm without an explicit id stores one more alarm
\* under an id of its own: after n such calls n alarms are stored, and no
\* call is refused.
C29_AutoIdsDistinct ==
    /\ Len(alarms) = last.creates
    /\ last.op = "create_alarm" => last.ret # << >>

\* C30: a scan never returns a one-time alarm that an earlier scan has
\* returned, unless the alarm was snoozed or re-armed in between.
C30_OneTimeFiresOnce ==
    last.op = "scan" => \A id \in last.spent : ~InList(id, last.result)

OthersSame(d, c, d2, c2, id) ==
    \A x \in AlarmIds \ {id} :
        /\ get_alarm(d2, x) = get_alarm(d, x)
        /\ CacheGet(c2, x) = CacheGet(c, x)

\* C32: remove_alarm(id) of a stored id deletes the alarm and its entry of
\* the last-triggered cache and leaves every other alarm and entry as it
\* was; get_alarm(id) then finds nothing; an alarm created under the id
\* afterwards is returned by a scan of the same minute in which it is due.
C32_RemoveDeletesAlarmAndEntry ==
    [][/\ (last'.op = "remove_alarm" /\ last'.id \in Keys(alarms)) =>
            /\ get_alarm(alarms', last'.id) = << >>
            /\ last'.id \notin DOMAIN last_triggered_minute'
            /\ Len(alarms') = Len(alarms) - 1
            /\ OthersSame(alarms, last_triggered_minute, alarms',
                          last_triggered_minute', last'.id)
       /\ (/\ last.op = "create_alarm" /\ last.ret # << >>
           /\ last'.op = "scan"
           /\ should_trigger(AlarmOf(alarms, last.id),
                             FromTimestamp(now)).ret)
            => InList(last.id, last'.result)]_vars

\* C32 witness: remove_alarm has deleted an alarm that a scan had returned
\* and that was not marked since, while another alarm is stored with its
\* cache entry.
C32_Witness ==
    /\ last.op = "remove_alarm"
    /\ last.id \notin Keys(alarms)
    /\ last.id \in actively_sounding_alarm_ids
    /\ last.id \notin DOMAIN last_triggered_minute
    /\ \E x \in Keys(alarms) : x \in DOMAIN last_triggered_minute

\* the value of an argument, or old when the argument was not supplied
Supplied(arg, old) == IF arg # << >> THEN arg[1] ELSE old

\* C33: update_alarm sets each supplied field to the value supplied
\* (repeat_days sorted and without duplicates) and leaves every other
\* field and the id as they were; the snooze is cleared if enabled = False
\* was supplied and is kept otherwise, also for enabled = True; enable_alarm
\* clears it.
C33_UpdateChangesSuppliedFields ==
    LET a == AlarmOf(alarms, "a")
        b == last.before
    IN /\ last.op = "update_alarm" =>
            /\ a.alarm_id = b.alarm_id
            /\ a.alarm_time = Supplied(last.alarm_time, b.alarm_time)
            /\ a.label = Supplied(last.label, b.label)
            /\ a.repeat_days =
                   IF last.repeat_days # << >>
                   THEN SortedSet({last.repeat_days[1][i] :
                                     i \in 1..Len(last.repeat_days[1])})
                   ELSE b.repeat_days
            /\ a.enabled = Supplied(last.enabled, b.enabled)
            /\ a.feed_type = Supplied(last.feed_type, b.feed_type)
            /\ a.feed_options = Supplied(last.feed_options, b.feed_options)
            /\ IF last.enabled = <<FALSE>>
               THEN ~a.is_snoozing /\ a.snooze_until_timestamp = None
               ELSE /\ a.is_snoozing = b.is_snoozing
                    /\ a.snooze_until_timestamp = b.snooze_until_timestamp
       /\ last.op = "enable_alarm" =>
            /\ a.enabled /\ ~a.is_snoozing
            /\ a.snooze_until_timestamp = None

\* C33 witness: update_alarm with enabled = True and a new label on a
\* snoozing alarm has kept the snooze.
C33_Witness ==
    /\ last.op = "update_alarm"
    /\ last.enabled = <<TRUE>>
    /\ last.label = <<"tea">>
    /\ last.alarm_time = << >>
    /\ last.before.is_snoozing
    /\ AlarmOf(alarms, "a").is_snoozing
    /\ AlarmOf(alarms, "a").label = "tea"

\* the calls of a processing that went through every step, and of one
\* that failed at the key, at the feed, at the synthesis or at the playback
ProcessRuns ==
    {<< <<"play", "fallback">> >>,
     << <<"feed", FALSE>>, <<"play", "fallback">> >>,
     << <<"feed", TRUE>>, <<"tts", FALSE>>, <<"play", "fallback">> >>,
     << <<"feed", TRUE>>, <<"tts", TRUE>>, <<"play", "generated">>,
        <<"play", "fallback">> >>}

\* C34: the calls made for one triggered alarm are, in this order, the feed
\* generation, the synthesis only after a feed that returned text, the
\* playback of the generated audio only after a synthesis that succeeded,
\* and after a failure nothing but at most one playback of the fallback
\* sound; the alarm handed over keeps every field.
C34_StepsInOrder ==
    /\ \E run \in ProcessRuns :
          IsPrefix(driver.calls, run) /\ IsPrefix(task.calls, run)
    /\ alarms = <<driver.alarm>>

\* C34 witness: the handler has ended after a feed with text and a failed
\* synthesis, with the fallback sound as its only playback.
C34_Witness ==
    /\ driver.pc = "done"
    /\ driver.calls = << <<"feed", TRUE>>, <<"tts", FALSE>>,
                         <<"play", "fallback">> >>

\* the blocking play_audio_file of the generated file returns
PlayReturns == task.pc = "wait" /\ task'.pc # "wait"

C36_OnePlayerAlive == Cardinality(task.alive) <= 1

\* C37: for one AlarmTask at most one thread of _generate_and_play_audio
\* runs at any time, for every interleaving of the calls of run and the
\* start of the threads.
C37_OneThreadPerTask ==
    Cardinality({n \in 1..MaxThreads : task.threads[n] # "none"}) <= 1

\* C38: every enabled alarm that is not snoozing fires in each of its
\* qualifying minutes even while the driver is busy with another alarm.
\* Stated for alarm B = "a", the alarm loaded from the file and so stored
\* before its minute began: when a minute ends while the loop is inside
\* process_single_triggered_alarm for another alarm, and B is stored,
\* enabled, not snoozing and due in that minute, then B has been returned
\* by a scan made in that minute.
C38_FiresWhileDriverBusy ==
    [][(AbsMinute(now') # AbsMinute(now) /\ driver.pc = "process")
          => \A i \in 1..Len(alarms) :
                (/\ alarms[i].alarm_id = "a"
                 /\ Head(driver.triggered_alarms) # "a"
                 /\ alarms[i].enabled /\ ~alarms[i].is_snoozing
                 /\ TimeMatches(alarms[i], FromTimestamp(now)))
                    => hist["a"].fired]_vars

====
